---- MODULE Spec2Model ----
(***************************************************************************)
(* QR-URL: resolution and allocation engine.                               *)
(*                                                                         *)
(* The durable store (D1 tables urls, users, url_clicks), the rate-limit   *)
(* store (KV) and the request handlers that read and write them:           *)
(*   - dashboard create action      (app/routes/dashboard.create.tsx)      *)
(*   - anonymous create action      (app/routes/home.tsx)                  *)
(*   - shortest-URL auto-creation   (lib/qr-shortest.ts)                   *)
(*   - set-subdomain                (app/routes/dashboard.tsx)             *)
(*   - redirect worker              (workers/redirect.ts, workers/app.ts)  *)
(*                                                                         *)
(* Strings are sequences of one-character strings, so that trimming,       *)
(* lower-casing, suffix tests and slicing are computed as the code         *)
(* computes them.  Every handler is a process: one action per store        *)
(* round-trip, carrying the synchronous code that follows the round-trip.  *)
(***************************************************************************)
EXTENDS Integers, Sequences, FiniteSets, TLC

VARIABLES
    urls,       \* table urls: set of rows
    nextUrlId,  \* AUTOINCREMENT counter of urls.id
    users,      \* table users: clerk_user_id -> subdomain (NULL: none set)
    clicks,     \* table url_clicks: set of rows
    nextClickId,\* AUTOINCREMENT counter of url_clicks.id
    kv,         \* RATE_LIMIT_KV: key -> stored count (absent keys not in DOMAIN)
    now,        \* the store's clock, in seconds
    dash,       \* dashboard create requests in flight
    anon,       \* anonymous create requests in flight
    shortest,   \* shortest-URL resolutions in flight
    redir,      \* redirect requests in flight
    del         \* delete-url requests in flight

vars == <<urls, nextUrlId, users, clicks, nextClickId, kv, now,
          dash, anon, shortest, redir, del>>

-----------------------------------------------------------------------------
(* Strings                                                                 *)

\* SQL NULL / JS null: a value no string is equal to.
NULL == <<"NULL">>

\* The empty string ''.
Empty == <<>>

UpperChars == <<"A","B","C","D","E","F","G","H","I","J","K","L","M",
                "N","O","P","Q","R","S","T","U","V","W","X","Y","Z">>

LowerChars == <<"a","b","c","d","e","f","g","h","i","j","k","l","m",
                "n","o","p","q","r","s","t","u","v","w","x","y","z">>

Digits == {"0","1","2","3","4","5","6","7","8","9"}

Whitespace == {" ", "\t", "\n"}

Range(s) == {s[i] : i \in DOMAIN s}

ToLowerChar(c) ==
    IF \E i \in DOMAIN UpperChars : UpperChars[i] = c
    THEN LowerChars[CHOOSE i \in DOMAIN UpperChars : UpperChars[i] = c]
    ELSE c

\* String.prototype.toLowerCase
ToLowerCase(s) == [i \in DOMAIN s |-> ToLowerChar(s[i])]

\* String.prototype.trim
Trim(s) ==
    LET keep == {i \in DOMAIN s : s[i] \notin Whitespace} IN
    IF keep = {} THEN Empty
    ELSE LET lo == CHOOSE i \in keep : \A j \in keep : i <= j
             hi == CHOOSE i \in keep : \A j \in keep : j <= i
         IN  SubSeq(s, lo, hi)

\* String.prototype.endsWith
EndsWith(s, suffix) ==
    /\ Len(suffix) <= Len(s)
    /\ SubSeq(s, Len(s) - Len(suffix) + 1, Len(s)) = suffix

\* String.prototype.includes
Includes(s, part) ==
    \E i \in 1..(Len(s) - Len(part) + 1) : SubSeq(s, i, i + Len(part) - 1) = part

\* Position of the first occurrence of character c in s, 0 when absent.
IndexOf(s, c) ==
    IF \E i \in DOMAIN s : s[i] = c
    THEN CHOOSE i \in DOMAIN s : s[i] = c /\ \A j \in 1..(i-1) : s[j] # c
    ELSE 0

\* COALESCE(x, '')
Coalesce(x) == IF x = NULL THEN Empty ELSE x

-----------------------------------------------------------------------------
(* URL strings: the parts of the platform's URL parser the handlers use     *)

Colon == ":"
Slash == "/"

SpecialSchemes == { <<"h","t","t","p">>, <<"h","t","t","p","s">>, <<"f","t","p">> }

IsAlpha(c) == \E i \in DOMAIN LowerChars : LowerChars[i] = c \/ UpperChars[i] = c

IsSchemeChar(c) == IsAlpha(c) \/ c \in Digits \/ c \in {"+", "-", "."}

\* Number of leading slashes of s.
RECURSIVE LeadingSlashes(_)
LeadingSlashes(s) ==
    IF s # Empty /\ Head(s) = Slash THEN 1 + LeadingSlashes(Tail(s)) ELSE 0

\* Percent-encoding of the path characters the parser rewrites.
RECURSIVE EncodePath(_)
EncodePath(s) ==
    IF s = Empty THEN Empty
    ELSE (IF Head(s) = " " THEN <<"%","2","0">> ELSE <<Head(s)>>) \o EncodePath(Tail(s))

ParseFailure == [ok |-> FALSE, protocol |-> Empty, hostname |-> Empty, pathname |-> Empty]

\* new URL(s): throws (ok = FALSE) or yields protocol, hostname and pathname.
ParseUrl(s) ==
    LET i == IndexOf(s, Colon) IN
    IF i <= 1 \/ ~IsAlpha(s[1]) \/ \E j \in 1..(i-1) : ~IsSchemeChar(s[j])
    THEN ParseFailure
    ELSE
      LET scheme == ToLowerCase(SubSeq(s, 1, i-1))
          rest   == SubSeq(s, i+1, Len(s))
      IN
      IF scheme \in SpecialSchemes
      THEN
        LET after == SubSeq(rest, LeadingSlashes(rest) + 1, Len(rest))
            k     == IndexOf(after, Slash)
            host  == IF k = 0 THEN after ELSE SubSeq(after, 1, k-1)
            path  == IF k = 0 THEN Empty ELSE SubSeq(after, k, Len(after))
        IN
        IF host = Empty \/ \E j \in DOMAIN host : host[j] \in Whitespace
        THEN ParseFailure
        ELSE [ok |-> TRUE,
              protocol |-> scheme \o <<Colon>>,
              hostname |-> ToLowerCase(host),
              pathname |-> IF path = Empty THEN <<Slash>> ELSE EncodePath(path)]
      ELSE [ok |-> TRUE, protocol |-> scheme \o <<Colon>>,
            hostname |-> Empty, pathname |-> rest]

\* URL.href of a parsed URL: the parser's serialization.
Href(u) ==
    IF u.protocol \in {sch \o <<Colon>> : sch \in SpecialSchemes}
    THEN u.protocol \o <<Slash, Slash>> \o u.hostname \o u.pathname
    ELSE u.protocol \o u.pathname

\* Response.redirect(url, 302): the Location header is the serialization of
\* the parsed url, not the argument string.
RedirectLocation(url) == Href(ParseUrl(url))

NoError == "null"

ALLOWED_PROTOCOLS == { <<"h","t","t","p",":">>, <<"h","t","t","p","s",":">> }

MAX_URL_LENGTH == 2048

validateUrl(rawUrl) ==
    LET trimmed == Trim(rawUrl)
        parsed  == ParseUrl(trimmed)
    IN
    IF Len(trimmed) = 0
    THEN [isValid |-> FALSE, error |-> "URL is required.", normalizedUrl |-> NULL]
    ELSE IF Len(trimmed) > MAX_URL_LENGTH
    THEN [isValid |-> FALSE, error |-> "URL must be 2048 characters or fewer.",
          normalizedUrl |-> NULL]
    ELSE IF ~parsed.ok
    THEN [isValid |-> FALSE, error |-> "Invalid URL format. Make sure to include https://",
          normalizedUrl |-> NULL]
    ELSE IF parsed.protocol \notin ALLOWED_PROTOCOLS
    THEN [isValid |-> FALSE, error |-> "Only http and https URLs are supported.",
          normalizedUrl |-> NULL]
    ELSE [isValid |-> TRUE, error |-> NoError, normalizedUrl |-> trimmed]

-----------------------------------------------------------------------------
(* Shortcodes                                                              *)

MAX_COLLISION_RETRIES == 5

MIN_CUSTOM_LENGTH == 3

MAX_CUSTOM_LENGTH == 30

IsLowerAlnum(c) == c \in Digits \/ \E i \in DOMAIN LowerChars : LowerChars[i] = c

\* /^[a-z0-9]([a-z0-9-]*[a-z0-9])?$/
CUSTOM_SHORTCODE_PATTERN(s) ==
    /\ Len(s) >= 1
    /\ IsLowerAlnum(s[1])
    /\ IsLowerAlnum(s[Len(s)])
    /\ \A i \in DOMAIN s : IsLowerAlnum(s[i]) \/ s[i] = "-"

RESERVED_SHORTCODES ==
    { <<"l","o","g","i","n">>, <<"s","i","g","n","u","p">>,
      <<"d","a","s","h","b","o","a","r","d">>, <<"a","p","i">>,
      <<"a","s","s","e","t","s">>, <<"f","a","v","i","c","o","n">>,
      <<"r","o","b","o","t","s">>, <<"s","i","t","e","m","a","p">>,
      <<"a","d","m","i","n">>, <<"h","e","l","p">>,
      <<"s","u","p","p","o","r","t">>, <<"a","b","o","u","t">>,
      <<"t","e","r","m","s">>, <<"p","r","i","v","a","c","y">> }

\* The validator with the pattern test in front of the length tests.
validateCustomShortcodePatternFirst(shortcode) ==
    LET cleaned == ToLowerCase(Trim(shortcode)) IN
    IF Len(cleaned) = 0
    THEN [isValid |-> FALSE, error |-> "Shortcode is required."]
    ELSE IF ~CUSTOM_SHORTCODE_PATTERN(cleaned)
    THEN [isValid |-> FALSE,
          error |-> "Only lowercase letters, numbers, and hyphens allowed. Must start and end with a letter or number."]
    ELSE IF Len(cleaned) < MIN_CUSTOM_LENGTH
    THEN [isValid |-> FALSE, error |-> "Shortcode must be at least 3 characters."]
    ELSE IF Len(cleaned) > MAX_CUSTOM_LENGTH
    THEN [isValid |-> FALSE, error |-> "Shortcode must be 30 characters or fewer."]
    ELSE IF Includes(cleaned, <<"-","-">>)
    THEN [isValid |-> FALSE, error |-> "Shortcode cannot contain consecutive hyphens."]
    ELSE IF cleaned \in RESERVED_SHORTCODES
    THEN [isValid |-> FALSE, error |-> "is reserved and cannot be used."]
    ELSE [isValid |-> TRUE, error |-> NoError]

\* The validator without the reserved-word test.
validateCustomShortcodeNoReserved(shortcode) ==
    LET cleaned == ToLowerCase(Trim(shortcode)) IN
    IF Len(cleaned) = 0
    THEN [isValid |-> FALSE, error |-> "Shortcode is required."]
    ELSE IF Len(cleaned) < MIN_CUSTOM_LENGTH
    THEN [isValid |-> FALSE, error |-> "Shortcode must be at least 3 characters."]
    ELSE IF Len(cleaned) > MAX_CUSTOM_LENGTH
    THEN [isValid |-> FALSE, error |-> "Shortcode must be 30 characters or fewer."]
    ELSE IF ~CUSTOM_SHORTCODE_PATTERN(cleaned)
    THEN [isValid |-> FALSE,
          error |-> "Only lowercase letters, numbers, and hyphens allowed. Must start and end with a letter or number."]
    ELSE IF Includes(cleaned, <<"-","-">>)
    THEN [isValid |-> FALSE, error |-> "Shortcode cannot contain consecutive hyphens."]
    ELSE [isValid |-> TRUE, error |-> NoError]

validateCustomShortcode(shortcode) ==
    LET cleaned == ToLowerCase(Trim(shortcode)) IN
    IF Len(cleaned) = 0
    THEN [isValid |-> FALSE, error |-> "Shortcode is required."]
    ELSE IF Len(cleaned) < MIN_CUSTOM_LENGTH
    THEN [isValid |-> FALSE, error |-> "Shortcode must be at least 3 characters."]
    ELSE IF Len(cleaned) > MAX_CUSTOM_LENGTH
    THEN [isValid |-> FALSE, error |-> "Shortcode must be 30 characters or fewer."]
    ELSE IF ~CUSTOM_SHORTCODE_PATTERN(cleaned)
    THEN [isValid |-> FALSE,
          error |-> "Only lowercase letters, numbers, and hyphens allowed. Must start and end with a letter or number."]
    ELSE IF Includes(cleaned, <<"-","-">>)
    THEN [isValid |-> FALSE, error |-> "Shortcode cannot contain consecutive hyphens."]
    ELSE IF cleaned \in RESERVED_SHORTCODES
    THEN [isValid |-> FALSE, error |-> "is reserved and cannot be used."]
    ELSE [isValid |-> TRUE, error |-> NoError]


-----------------------------------------------------------------------------
(* Subdomains (lib/subdomain-validation.ts)                                *)

RESERVED_SUBDOMAIN_NAMES ==
    { <<"a","d","m","i","n">>, <<"a","p","i">>, <<"w","w","w">>, <<"a","p","p">>,
      <<"m","a","i","l">>, <<"f","t","p">>, <<"b","l","o","g">>, <<"h","e","l","p">>,
      <<"s","u","p","p","o","r","t">>, <<"s","t","a","t","u","s">> }

cleanSubdomain(rawInput) == ToLowerCase(Trim(rawInput))

validateSubdomainFormat(subdomain) ==
    LET cleaned == ToLowerCase(Trim(subdomain)) IN
    /\ Len(cleaned) # 0
    /\ Len(cleaned) >= MIN_CUSTOM_LENGTH
    /\ Len(cleaned) <= MAX_CUSTOM_LENGTH
    /\ CUSTOM_SHORTCODE_PATTERN(cleaned)
    /\ ~Includes(cleaned, <<"-","-">>)
    /\ cleaned \notin RESERVED_SUBDOMAIN_NAMES

-----------------------------------------------------------------------------
(* Bounds and input sets                                                   *)

\* Per-owner URL quota.  The source fixes it at 10 (MAX_URLS_PER_USER,
\* FREE_MAX_URLS); the model scales it down so that the quota is reached.
MaxUrls == 2

MAX_URLS_PER_USER == MaxUrls

u1 == <<"u","1">>
u2 == <<"u","2">>

Users == {u1, u2}

stp == <<"s","t","p">>
foo == <<"f","o","o">>

abc == <<"a","b","c">>
abcdef == <<"a","b","c","d","e","f">>

urlNoPath == <<"h","t","t","p",":","/","/","a",".","b">>
urlPath == <<"h","t","t","p",":","/","/","a",".","b","/">>

\* Values of the subdomain form field.
SubdomainInputs == {stp, <<"F","o","o"," ">>, <<"a","p","p">>}

\* Values of the originalUrl form field.
UrlInputs == {urlNoPath, <<" ">> \o urlPath, <<"a",".","b">>, <<"f","t","p",":","/","/","a">>}

\* Values of the customShortcode form field.
CustomInputs == {abc, <<"A","b","c","d","e","f"," ">>, <<"a","p","i">>, <<"a","-","-","b">>}

\* Values generateShortcode may return.
GeneratedCodes == {abcdef, <<"X","y","Z","0","1","2">>}

-----------------------------------------------------------------------------
(* The durable store                                                       *)

\* urls.expires_at IS NULL
NoExpiry == -1

UrlRow(id, user_id, shortcode, original_url, subdomain, expires_at) ==
    [id |-> id, user_id |-> user_id, shortcode |-> shortcode,
     original_url |-> original_url, subdomain |-> subdomain,
     expires_at |-> expires_at]

\* CREATE UNIQUE INDEX idx_urls_subdomain_shortcode
\*   ON urls (COALESCE(subdomain, ''), shortcode): the indexed key of a row.
idx_urls_subdomain_shortcode(row) == <<Coalesce(row.subdomain), row.shortcode>>

\* A unique index on (subdomain, shortcode): NULL subdomains are distinct.
UniqueConstraintFailedPlainIndex(row) ==
    \E r \in urls : /\ r.subdomain # NULL
                    /\ r.subdomain = row.subdomain
                    /\ r.shortcode = row.shortcode

\* "UNIQUE constraint failed": the store refuses a row whose key is present.
UniqueConstraintFailed(row) ==
    \E r \in urls : idx_urls_subdomain_shortcode(r) = idx_urls_subdomain_shortcode(row)

\* SELECT COUNT(*) FROM urls WHERE user_id = ?
CountUrls(userId) == Cardinality({r \in urls : r.user_id = userId})

\* An existence check on the shortcode alone.
checkShortcodeExistsAnyPartition(shortcode, subdomain) ==
    \E r \in urls : r.shortcode = shortcode

\* An existence check that passes over expired rows.
checkShortcodeExistsUnexpired(shortcode, subdomain) ==
    \E r \in urls : /\ Coalesce(r.subdomain) = Coalesce(subdomain)
                    /\ r.shortcode = shortcode
                    /\ (r.expires_at = NoExpiry \/ r.expires_at > now)

\* SELECT 1 FROM urls WHERE COALESCE(subdomain, '') = COALESCE(?, '')
\*   AND shortcode = ? LIMIT 1
checkShortcodeExists(shortcode, subdomain) ==
    \E r \in urls : Coalesce(r.subdomain) = Coalesce(subdomain) /\ r.shortcode = shortcode

\* SELECT subdomain FROM users WHERE clerk_user_id = ?
UserSubdomain(userId) == users[userId]

\* handleSetSubdomain: validation, then the upsert.  The UNIQUE constraint on
\* users.subdomain decides the write at the instant of the upsert; the earlier
\* SELECT only chooses the response.
SetSubdomain(userId, rawSubdomain) ==
    LET cleaned == cleanSubdomain(rawSubdomain) IN
    /\ rawSubdomain # Empty
    /\ validateSubdomainFormat(cleaned)
    /\ ~\E other \in Users : other # userId /\ users[other] = cleaned
    /\ users[userId] # cleaned
    /\ users' = [users EXCEPT ![userId] = cleaned]
    /\ UNCHANGED <<urls, nextUrlId, clicks, nextClickId, kv, now,
                   dash, anon, shortest, redir, del>>


\* The loop with attempt <= MAX_COLLISION_RETRIES as its condition.
generateUniqueShortcodeOneMore(attempt, candidate, subdomain) ==
    IF ~checkShortcodeExists(candidate, subdomain)
    THEN [state |-> "found", shortcode |-> candidate, attempt |-> attempt]
    ELSE IF attempt + 1 <= MAX_COLLISION_RETRIES
    THEN [state |-> "retry", shortcode |-> NULL, attempt |-> attempt + 1]
    ELSE [state |-> "exhausted", shortcode |-> NULL, attempt |-> attempt + 1]

\* One iteration of the loop of generateUniqueShortcode: a candidate from
\* generateShortcode and its collision check.  state is "found" (candidate
\* returned), "retry" (next iteration) or "exhausted" (null returned).
generateUniqueShortcode(attempt, candidate, subdomain) ==
    IF ~checkShortcodeExists(candidate, subdomain)
    THEN [state |-> "found", shortcode |-> candidate, attempt |-> attempt]
    ELSE IF attempt + 1 < MAX_COLLISION_RETRIES
    THEN [state |-> "retry", shortcode |-> NULL, attempt |-> attempt + 1]
    ELSE [state |-> "exhausted", shortcode |-> NULL, attempt |-> attempt + 1]

-----------------------------------------------------------------------------
(* Dashboard create action (app/routes/dashboard.create.tsx)               *)

\* Request slots; a slot serves one request.
DashReqs == {1, 2, 3}

DashIdle ==
    [pc |-> "idle", userId |-> NULL, originalUrl |-> NULL, urlFormat |-> "short",
     useCustomShortcode |-> FALSE, customShortcode |-> Empty, urlSubdomain |-> NULL,
     shortcode |-> NULL, attempt |-> 0, status |-> 0, error |-> NoError]

\* The response of the action; the locals of the request are gone.
DashDone(status, error) ==
    [DashIdle EXCEPT !.pc = "done", !.status = status, !.error = error]

\* Lines 146-203 up to the next query: the shortcode is validated (custom)
\* or the generation loop is entered (auto).
DashResolveShortcode(rec, urlSubdomain) ==
    IF rec.useCustomShortcode
    THEN LET cleaned == ToLowerCase(Trim(rec.customShortcode))
             shortcodeValidation == validateCustomShortcode(cleaned)
         IN  IF ~shortcodeValidation.isValid
             THEN DashDone(400, shortcodeValidation.error)
             ELSE [rec EXCEPT !.pc = "exists", !.urlSubdomain = urlSubdomain,
                              !.customShortcode = cleaned]
    ELSE [rec EXCEPT !.pc = "generate", !.urlSubdomain = urlSubdomain, !.attempt = 0]

\* The request arrives: authentication, form fields, validateUrl.
DashStart(d, userId, originalUrl, urlFormat, useCustomShortcode, customShortcode) ==
    LET urlValidation == validateUrl(originalUrl) IN
    /\ dash[d].pc = "idle"
    /\ dash' = [dash EXCEPT ![d] =
          IF userId = NULL THEN DashDone(401, "Not authenticated.")
          ELSE IF ~urlValidation.isValid THEN DashDone(400, urlValidation.error)
          ELSE [DashIdle EXCEPT !.pc = "count", !.userId = userId,
                  !.originalUrl = urlValidation.normalizedUrl,
                  !.urlFormat = urlFormat,
                  !.useCustomShortcode = useCustomShortcode,
                  !.customShortcode = customShortcode]]
    /\ UNCHANGED <<urls, nextUrlId, users, clicks, nextClickId, kv, now,
                   anon, shortest, redir, del>>

\* SELECT COUNT(*) and the limit check (lines 106-122); a short-format URL
\* goes on to resolve its shortcode.
DashCount(d) ==
    LET rec == dash[d]
        currentCount == CountUrls(rec.userId)
    IN
    /\ rec.pc = "count"
    /\ dash' = [dash EXCEPT ![d] =
          IF currentCount >= MAX_URLS_PER_USER
          THEN DashDone(403, "You've reached the limit of URLs.")
          ELSE IF rec.urlFormat = "branded"
          THEN [rec EXCEPT !.pc = "userRow"]
          ELSE DashResolveShortcode(rec, NULL)]
    /\ UNCHANGED <<urls, nextUrlId, users, clicks, nextClickId, kv, now,
                   anon, shortest, redir, del>>

\* SELECT subdomain FROM users (lines 127-144).
DashUserRow(d) ==
    LET rec == dash[d]
        subdomain == UserSubdomain(rec.userId)
    IN
    /\ rec.pc = "userRow"
    /\ dash' = [dash EXCEPT ![d] =
          IF subdomain = NULL \/ subdomain = Empty
          THEN DashDone(400, "You need to set up a subdomain before creating branded URLs.")
          ELSE DashResolveShortcode(rec, subdomain)]
    /\ UNCHANGED <<urls, nextUrlId, users, clicks, nextClickId, kv, now,
                   anon, shortest, redir, del>>

\* The uniqueness SELECT of a custom shortcode (lines 161-187).
DashExists(d) ==
    LET rec == dash[d]
        existingRow == checkShortcodeExists(rec.customShortcode, rec.urlSubdomain)
    IN
    /\ rec.pc = "exists"
    /\ dash' = [dash EXCEPT ![d] =
          IF existingRow
          THEN DashDone(409, "Shortcode is already taken.")
          ELSE [rec EXCEPT !.pc = "insert", !.shortcode = rec.customShortcode]]
    /\ UNCHANGED <<urls, nextUrlId, users, clicks, nextClickId, kv, now,
                   anon, shortest, redir, del>>

\* One iteration of generateUniqueShortcode(db, urlSubdomain) (lines 189-202).
DashGenerate(d, candidate) ==
    LET rec == dash[d]
        generated == generateUniqueShortcode(rec.attempt, candidate, rec.urlSubdomain)
    IN
    /\ rec.pc = "generate"
    /\ dash' = [dash EXCEPT ![d] =
          CASE generated.state = "found" ->
                 [rec EXCEPT !.pc = "insert", !.shortcode = generated.shortcode]
            [] generated.state = "retry" ->
                 [rec EXCEPT !.attempt = generated.attempt]
            [] OTHER ->
                 DashDone(500, "Failed to generate a unique shortcode after multiple attempts. Please try again.")]
    /\ UNCHANGED <<urls, nextUrlId, users, clicks, nextClickId, kv, now,
                   anon, shortest, redir, del>>

\* The exception of a rejected INSERT is not caught by the action.
UniqueConstraintError == "UNIQUE constraint failed"

\* INSERT INTO urls (user_id, shortcode, original_url, subdomain)
\*   VALUES (?, ?, ?, ?)   (lines 205-228)
DashInsert(d) ==
    LET rec == dash[d]
        row == UrlRow(nextUrlId, rec.userId, rec.shortcode, rec.originalUrl,
                      rec.urlSubdomain, NoExpiry)
    IN
    /\ rec.pc = "insert"
    /\ IF UniqueConstraintFailed(row)
       THEN /\ dash' = [dash EXCEPT ![d] = DashDone(500, UniqueConstraintError)]
            /\ UNCHANGED <<urls, nextUrlId>>
       ELSE /\ urls' = urls \cup {row}
            /\ nextUrlId' = nextUrlId + 1
            /\ dash' = [dash EXCEPT ![d] = DashDone(200, NoError)]
    /\ UNCHANGED <<users, clicks, nextClickId, kv, now, anon, shortest, redir, del>>

\* The requests D, made by the users U with form fields drawn from
\* urlInputs, formats and customInputs; generateShortcode draws from generated.
DashNext(D, U, urlInputs, formats, customInputs, generated) ==
    \E d \in D :
       \/ \E userId \in U, originalUrl \in urlInputs, urlFormat \in formats :
             /\ \A e \in D : e < d => dash[e].pc # "idle"
             /\ \/ DashStart(d, userId, originalUrl, urlFormat, FALSE, Empty)
                \/ \E customShortcode \in customInputs :
                      DashStart(d, userId, originalUrl, urlFormat, TRUE, customShortcode)
       \/ DashCount(d)
       \/ DashUserRow(d)
       \/ DashExists(d)
       \/ \E candidate \in generated : DashGenerate(d, candidate)
       \/ DashInsert(d)

-----------------------------------------------------------------------------
(* Rate limiter (app/lib/rate-limit.ts)                                    *)

MAX_ANONYMOUS_URLS_PER_DAY == 5

\* Seconds per UTC calendar day (86400 in the source), scaled down.
DaySeconds == 2

\* 25 * 60 * 60: one day and a buffer of one hour, in the scaled unit.
TTL_SECONDS == DaySeconds + 1

\* Days an anonymous URL lives (365 in home.tsx), scaled down.
ExpiryDays == 1

\* new Date().toISOString().split("T")[0]
Today == now \div DaySeconds

\* A key of the source alone.
buildKeyNoDay(clientIp) == <<"ratelimit", clientIp, 0>>

\* `${KEY_PREFIX}:${clientIp}:${today}`
buildKey(clientIp) == <<"ratelimit", clientIp, Today>>

\* kv.get(key) followed by parseInt, 0 for an absent key; a key is absent
\* once its expiration has passed.
KvCount(key) ==
    IF key \in DOMAIN kv /\ kv[key].expiration > now THEN kv[key].value ELSE 0

\* The limit test with > in place of >=.
checkRateLimitOffByOne(clientIp) ==
    LET currentCount == KvCount(buildKey(clientIp)) IN
    IF currentCount > MAX_ANONYMOUS_URLS_PER_DAY
    THEN [allowed |-> FALSE, remaining |-> 0]
    ELSE [allowed |-> TRUE, remaining |-> MAX_ANONYMOUS_URLS_PER_DAY - currentCount]

checkRateLimit(clientIp) ==
    LET currentCount == KvCount(buildKey(clientIp)) IN
    IF currentCount >= MAX_ANONYMOUS_URLS_PER_DAY
    THEN [allowed |-> FALSE, remaining |-> 0]
    ELSE [allowed |-> TRUE, remaining |-> MAX_ANONYMOUS_URLS_PER_DAY - currentCount]

\* kv.put(key, String(newCount), { expirationTtl: TTL_SECONDS })
KvPut(key, newCount) ==
    [k \in DOMAIN kv \cup {key} |->
        IF k = key THEN [value |-> newCount, expiration |-> now + TTL_SECONDS]
        ELSE kv[k]]

-----------------------------------------------------------------------------
(* Anonymous create action (app/routes/home.tsx)                           *)

ClientIps == {"ip1"}

AnonIdle ==
    [pc |-> "idle", originalUrl |-> NULL, clientIp |-> "", shortcode |-> NULL,
     attempt |-> 0, key |-> <<>>, newCount |-> 0, status |-> 0, error |-> NoError,
     remaining |-> 0]

AnonDone(status, error, remaining) ==
    [AnonIdle EXCEPT !.pc = "done", !.status = status, !.error = error,
                     !.remaining = remaining]

\* The request arrives: validateUrl; an empty captcha token is refused by
\* verifyTurnstileToken without a network call.
AnonStart(a, originalUrl, turnstileToken, clientIp) ==
    LET urlValidation == validateUrl(originalUrl) IN
    /\ anon[a].pc = "idle"
    /\ anon' = [anon EXCEPT ![a] =
          IF ~urlValidation.isValid THEN AnonDone(400, urlValidation.error, 0)
          ELSE IF Len(Trim(turnstileToken)) = 0
          THEN AnonDone(403, "Captcha verification is required.", 0)
          ELSE [AnonIdle EXCEPT !.pc = "turnstile",
                  !.originalUrl = urlValidation.normalizedUrl,
                  !.clientIp = clientIp]]
    /\ UNCHANGED <<urls, nextUrlId, users, clicks, nextClickId, kv, now,
                   dash, shortest, redir, del>>

\* The siteverify call of verifyTurnstileToken: the outcome is the remote
\* service's (success) or a failure (rejected token, HTTP error, exception).
AnonTurnstile(a, success) ==
    LET rec == anon[a] IN
    /\ rec.pc = "turnstile"
    /\ anon' = [anon EXCEPT ![a] =
          IF ~success THEN AnonDone(403, "Captcha verification failed.", 0)
          ELSE [rec EXCEPT !.pc = "rate"]]
    /\ UNCHANGED <<urls, nextUrlId, users, clicks, nextClickId, kv, now,
                   dash, shortest, redir, del>>

\* A rate-limit step that counts the request when it allows it.
AnonRateCounting(a) ==
    LET rec == anon[a]
        rateLimitCheck == checkRateLimit(rec.clientIp)
    IN
    /\ rec.pc = "rate"
    /\ anon' = [anon EXCEPT ![a] =
          IF ~rateLimitCheck.allowed THEN AnonDone(429, "Daily limit reached.", 0)
          ELSE [rec EXCEPT !.pc = "generate", !.attempt = 0]]
    /\ kv' = IF rateLimitCheck.allowed
             THEN KvPut(buildKey(rec.clientIp), KvCount(buildKey(rec.clientIp)) + 1)
             ELSE kv
    /\ UNCHANGED <<urls, nextUrlId, users, clicks, nextClickId, now,
                   dash, shortest, redir, del>>

\* checkRateLimit(kv, clientIp) (lines 133-142).
AnonRate(a) ==
    LET rec == anon[a]
        rateLimitCheck == checkRateLimit(rec.clientIp)
    IN
    /\ rec.pc = "rate"
    /\ anon' = [anon EXCEPT ![a] =
          IF ~rateLimitCheck.allowed THEN AnonDone(429, "Daily limit reached.", 0)
          ELSE [rec EXCEPT !.pc = "generate", !.attempt = 0]]
    /\ UNCHANGED <<urls, nextUrlId, users, clicks, nextClickId, kv, now,
                   dash, shortest, redir, del>>

\* One iteration of generateUniqueShortcode(db, null) (lines 144-161).
AnonGenerate(a, candidate) ==
    LET rec == anon[a]
        generated == generateUniqueShortcode(rec.attempt, candidate, NULL)
    IN
    /\ rec.pc = "generate"
    /\ anon' = [anon EXCEPT ![a] =
          CASE generated.state = "found" ->
                 [rec EXCEPT !.pc = "insert", !.shortcode = generated.shortcode]
            [] generated.state = "retry" ->
                 [rec EXCEPT !.attempt = generated.attempt]
            [] OTHER ->
                 AnonDone(500, "Failed to generate a unique shortcode. Please try again.", 0)]
    /\ UNCHANGED <<urls, nextUrlId, users, clicks, nextClickId, kv, now,
                   dash, shortest, redir, del>>

\* INSERT INTO urls (...) VALUES (NULL, ?, ?, NULL, datetime('now', '+365 days'))
\* (lines 163-179); buildKey of incrementRateLimit follows a successful insert.
AnonInsert(a) ==
    LET rec == anon[a]
        row == UrlRow(nextUrlId, NULL, rec.shortcode, rec.originalUrl, NULL,
                      now + ExpiryDays * DaySeconds)
    IN
    /\ rec.pc = "insert"
    /\ IF UniqueConstraintFailed(row)
       THEN /\ anon' = [anon EXCEPT ![a] = AnonDone(500, UniqueConstraintError, 0)]
            /\ UNCHANGED <<urls, nextUrlId>>
       ELSE /\ urls' = urls \cup {row}
            /\ nextUrlId' = nextUrlId + 1
            /\ anon' = [anon EXCEPT ![a] =
                  [rec EXCEPT !.pc = "incrGet", !.key = buildKey(rec.clientIp)]]
    /\ UNCHANGED <<users, clicks, nextClickId, kv, now, dash, shortest, redir, del>>

\* incrementRateLimit: kv.get(key) (lines 106-108 of rate-limit.ts).
AnonIncrGet(a) ==
    LET rec == anon[a] IN
    /\ rec.pc = "incrGet"
    /\ anon' = [anon EXCEPT ![a] =
          [rec EXCEPT !.pc = "incrPut", !.newCount = KvCount(rec.key) + 1]]
    /\ UNCHANGED <<urls, nextUrlId, users, clicks, nextClickId, kv, now,
                   dash, shortest, redir, del>>

\* incrementRateLimit: kv.put (lines 110-112), then the success response.
AnonIncrPut(a) ==
    LET rec == anon[a] IN
    /\ rec.pc = "incrPut"
    /\ kv' = KvPut(rec.key, rec.newCount)
    /\ anon' = [anon EXCEPT ![a] =
          AnonDone(200, NoError, MAX_ANONYMOUS_URLS_PER_DAY - rec.newCount)]
    /\ UNCHANGED <<urls, nextUrlId, users, clicks, nextClickId, now,
                   dash, shortest, redir, del>>

-----------------------------------------------------------------------------
(* Shortest-URL resolution (lib/qr-shortest.ts, called by the save-qr      *)
(* action of dashboard.qr.new.tsx)                                         *)

\* SITE_DOMAIN of lib/constants.ts, the root domain of the deployment.
SITE_DOMAIN == <<"q",".","i","o">>

\* permissions.maxUrls of the free plan (FREE_MAX_URLS).
maxUrls == MaxUrls

\* permissions.maxUrls of the pro plan (PRO_MAX_URLS), above the free quota.
PRO_MAX_URLS == MaxUrls + 2

\* users.plan is written outside this program and read by the save-qr action:
\* the users whose row says 'pro'.
ProUsers == {u2}

\* getTierPermissions(userRow?.plan).maxUrls
getTierPermissions(userId) ==
    [maxUrls |-> IF userId \in ProUsers THEN PRO_MAX_URLS ELSE maxUrls]

ShortIdle ==
    [pc |-> "idle", userId |-> NULL, urlRecord |-> NULL, currentUrlCount |-> 0,
     newShortcode |-> NULL, attempt |-> 0, changes |-> -1,
     encodedUrl |-> Empty, autoCreated |-> FALSE, error |-> NoError]

\* ShortestUrlResult as returned to the action; changes is result.meta.changes
\* of the conditional insert, -1 when the statement did not complete.
ShortDone(encodedUrl, autoCreated, error) ==
    [ShortIdle EXCEPT !.pc = "done", !.encodedUrl = encodedUrl,
                      !.autoCreated = autoCreated, !.error = error]

LimitError == "You've reached the URL limit. Delete a URL before auto-creating a short version."

ConflictError == "Shortcode conflict. Please try again."

ExhaustedError == "Failed to generate a unique shortcode. Please try again."

\* The action verifies ownership of the URL the QR code is for:
\* SELECT id, shortcode, original_url, subdomain FROM urls WHERE id = ? AND user_id = ?
ShortStart(s, userId, urlId) ==
    /\ shortest[s].pc = "idle"
    /\ shortest' = [shortest EXCEPT ![s] =
          IF \E r \in urls : r.id = urlId /\ r.user_id = userId
          THEN LET r == CHOOSE r \in urls : r.id = urlId /\ r.user_id = userId IN
               [ShortIdle EXCEPT !.pc = "count", !.userId = userId,
                  !.urlRecord = [id |-> r.id, shortcode |-> r.shortcode,
                                 original_url |-> r.original_url,
                                 subdomain |-> r.subdomain]]
          ELSE ShortDone(Empty, FALSE, "URL not found.")]
    /\ UNCHANGED <<urls, nextUrlId, users, clicks, nextClickId, kv, now,
                   dash, anon, redir, del>>

\* The action counts the owner's URLs, then calls resolveShortestUrl, whose
\* case 1 (already short format) returns at once.
ShortCount(s) ==
    LET rec == shortest[s] IN
    /\ rec.pc = "count"
    /\ shortest' = [shortest EXCEPT ![s] =
          IF rec.urlRecord.subdomain = NULL
          THEN ShortDone(SITE_DOMAIN \o <<Slash>> \o rec.urlRecord.shortcode, FALSE, NoError)
          ELSE [rec EXCEPT !.pc = "existing", !.currentUrlCount = CountUrls(rec.userId)]]
    /\ UNCHANGED <<urls, nextUrlId, users, clicks, nextClickId, kv, now,
                   dash, anon, redir, del>>

\* The reuse of an existing short URL of any owner.
ShortExistingAnyOwner(s) ==
    LET rec == shortest[s]
        matches == {r \in urls : /\ r.subdomain = NULL
                                 /\ r.original_url = rec.urlRecord.original_url}
    IN
    /\ rec.pc = "existing"
    /\ IF matches # {}
       THEN \E existingShortUrl \in matches :
               shortest' = [shortest EXCEPT ![s] =
                  ShortDone(SITE_DOMAIN \o <<Slash>> \o existingShortUrl.shortcode,
                            FALSE, NoError)]
       ELSE shortest' = [shortest EXCEPT ![s] =
               IF rec.currentUrlCount >= getTierPermissions(rec.userId).maxUrls
               THEN ShortDone(Empty, FALSE, LimitError)
               ELSE [rec EXCEPT !.pc = "taken"]]
    /\ UNCHANGED <<urls, nextUrlId, users, clicks, nextClickId, kv, now,
                   dash, anon, redir, del>>

\* The limit pre-check placed before the reuse of an existing short URL.
ShortExistingLimitFirst(s) ==
    LET rec == shortest[s]
        matches == {r \in urls : /\ r.subdomain = NULL
                                 /\ r.original_url = rec.urlRecord.original_url
                                 /\ r.user_id = rec.userId}
    IN
    /\ rec.pc = "existing"
    /\ IF rec.currentUrlCount >= getTierPermissions(rec.userId).maxUrls
       THEN shortest' = [shortest EXCEPT ![s] = ShortDone(Empty, FALSE, LimitError)]
       ELSE IF matches # {}
       THEN \E existingShortUrl \in matches :
               shortest' = [shortest EXCEPT ![s] =
                  ShortDone(SITE_DOMAIN \o <<Slash>> \o existingShortUrl.shortcode,
                            FALSE, NoError)]
       ELSE shortest' = [shortest EXCEPT ![s] = [rec EXCEPT !.pc = "taken"]]
    /\ UNCHANGED <<urls, nextUrlId, users, clicks, nextClickId, kv, now,
                   dash, anon, redir, del>>

\* SELECT id, shortcode FROM urls WHERE subdomain IS NULL AND original_url = ?
\*   AND user_id = ? LIMIT 1   (cases 2 and 3), then the limit pre-check.
ShortExisting(s) ==
    LET rec == shortest[s]
        matches == {r \in urls : /\ r.subdomain = NULL
                                 /\ r.original_url = rec.urlRecord.original_url
                                 /\ r.user_id = rec.userId}
    IN
    /\ rec.pc = "existing"
    /\ IF matches # {}
       THEN \E existingShortUrl \in matches :
               shortest' = [shortest EXCEPT ![s] =
                  ShortDone(SITE_DOMAIN \o <<Slash>> \o existingShortUrl.shortcode,
                            FALSE, NoError)]
       ELSE shortest' = [shortest EXCEPT ![s] =
               IF rec.currentUrlCount >= getTierPermissions(rec.userId).maxUrls
               THEN ShortDone(Empty, FALSE, LimitError)
               ELSE [rec EXCEPT !.pc = "taken"]]
    /\ UNCHANGED <<urls, nextUrlId, users, clicks, nextClickId, kv, now,
                   dash, anon, redir, del>>

\* SELECT 1 FROM urls WHERE COALESCE(subdomain, '') = '' AND shortcode = ?
\* (cases 4 and 5).
ShortTaken(s) ==
    LET rec == shortest[s]
        shortcodeGloballyTaken ==
            \E r \in urls : Coalesce(r.subdomain) = Empty
                            /\ r.shortcode = rec.urlRecord.shortcode
    IN
    /\ rec.pc = "taken"
    /\ shortest' = [shortest EXCEPT ![s] =
          IF shortcodeGloballyTaken
          THEN [rec EXCEPT !.pc = "generate", !.attempt = 0]
          ELSE [rec EXCEPT !.pc = "insert", !.newShortcode = rec.urlRecord.shortcode]]
    /\ UNCHANGED <<urls, nextUrlId, users, clicks, nextClickId, kv, now,
                   dash, anon, redir, del>>

\* One iteration of generateUniqueShortcode(db, null) (case 4).
ShortGenerate(s, candidate) ==
    LET rec == shortest[s]
        generated == generateUniqueShortcode(rec.attempt, candidate, NULL)
    IN
    /\ rec.pc = "generate"
    /\ shortest' = [shortest EXCEPT ![s] =
          CASE generated.state = "found" ->
                 [rec EXCEPT !.pc = "insert", !.newShortcode = generated.shortcode]
            [] generated.state = "retry" ->
                 [rec EXCEPT !.attempt = generated.attempt]
            [] OTHER -> ShortDone(Empty, FALSE, ExhaustedError)]
    /\ UNCHANGED <<urls, nextUrlId, users, clicks, nextClickId, kv, now,
                   dash, anon, redir, del>>

\* A limit check on the count read before the insert.
InsertAllowedStale(userId, currentUrlCount) ==
    currentUrlCount < getTierPermissions(userId).maxUrls

\* The predicate of the conditional insert:
\*   WHERE (SELECT COUNT(*) FROM urls WHERE user_id = ?) < ?
\* evaluated by the store in the statement that inserts.
InsertAllowed(userId, currentUrlCount) ==
    CountUrls(userId) < getTierPermissions(userId).maxUrls

\* The insert without the test of result.meta.changes.
ShortInsertIgnoringChanges(s) ==
    LET rec == shortest[s]
        row == UrlRow(nextUrlId, rec.userId, rec.newShortcode,
                      rec.urlRecord.original_url, NULL, NoExpiry)
    IN
    /\ rec.pc = "insert"
    /\ IF ~InsertAllowed(rec.userId, rec.currentUrlCount)
       THEN /\ shortest' = [shortest EXCEPT ![s] =
                  [ShortDone(SITE_DOMAIN \o <<Slash>> \o rec.newShortcode, TRUE, NoError)
                      EXCEPT !.changes = 0]]
            /\ UNCHANGED <<urls, nextUrlId>>
       ELSE IF UniqueConstraintFailed(row)
       THEN /\ shortest' = [shortest EXCEPT ![s] = ShortDone(Empty, FALSE, ConflictError)]
            /\ UNCHANGED <<urls, nextUrlId>>
       ELSE /\ urls' = urls \cup {row}
            /\ nextUrlId' = nextUrlId + 1
            /\ shortest' = [shortest EXCEPT ![s] =
                  [ShortDone(SITE_DOMAIN \o <<Slash>> \o rec.newShortcode, TRUE, NoError)
                      EXCEPT !.changes = 1]]
    /\ UNCHANGED <<users, clicks, nextClickId, kv, now, dash, anon, redir, del>>

\* INSERT INTO urls (...) SELECT ?, ?, ?, NULL WHERE (...) < ?  (lines 145-188).
ShortInsert(s) ==
    LET rec == shortest[s]
        row == UrlRow(nextUrlId, rec.userId, rec.newShortcode,
                      rec.urlRecord.original_url, NULL, NoExpiry)
    IN
    /\ rec.pc = "insert"
    /\ IF ~InsertAllowed(rec.userId, rec.currentUrlCount)
       THEN \* result.meta.changes === 0
            /\ shortest' = [shortest EXCEPT ![s] =
                  [ShortDone(Empty, FALSE, LimitError) EXCEPT !.changes = 0]]
            /\ UNCHANGED <<urls, nextUrlId>>
       ELSE IF UniqueConstraintFailed(row)
       THEN /\ shortest' = [shortest EXCEPT ![s] = ShortDone(Empty, FALSE, ConflictError)]
            /\ UNCHANGED <<urls, nextUrlId>>
       ELSE /\ urls' = urls \cup {row}
            /\ nextUrlId' = nextUrlId + 1
            /\ shortest' = [shortest EXCEPT ![s] =
                  [ShortDone(SITE_DOMAIN \o <<Slash>> \o rec.newShortcode, TRUE, NoError)
                      EXCEPT !.changes = 1]]
    /\ UNCHANGED <<users, clicks, nextClickId, kv, now, dash, anon, redir, del>>

-----------------------------------------------------------------------------
(* Redirect worker (workers/redirect.ts, workers/app.ts)                   *)

RESERVED_SUBDOMAINS == { <<"a","p","p">>, <<"a","p","i">>, <<"w","w","w">> }

RESERVED_PATHS ==
    { <<"l","o","g","i","n">>, <<"s","i","g","n","u","p">>,
      <<"d","a","s","h","b","o","a","r","d">>, <<"a","p","i">>,
      <<"a","s","s","e","t","s">>,
      <<"f","a","v","i","c","o","n",".","i","c","o">> }

localhost == <<"l","o","c","a","l","h","o","s","t">>

loopback == <<"1","2","7",".","0",".","0",".","1">>

\* url.pathname.split("/").filter(Boolean): the non-empty segments.
RECURSIVE PathSegments(_)
PathSegments(pathname) ==
    IF pathname = Empty THEN <<>>
    ELSE LET k == IndexOf(pathname, Slash) IN
         IF k = 0 THEN <<pathname>>
         ELSE IF k = 1 THEN PathSegments(Tail(pathname))
         ELSE <<SubSeq(pathname, 1, k-1)>>
              \o PathSegments(SubSeq(pathname, k+1, Len(pathname)))

extractSubdomain(hostname, rootDomain) ==
    IF hostname = localhost \/ hostname = loopback
    THEN NULL
    ELSE IF hostname = rootDomain THEN NULL
    ELSE IF EndsWith(hostname, <<".">> \o rootDomain)
    THEN SubSeq(hostname, 1, Len(hostname) - Len(rootDomain) - 1)
    ELSE NULL

\* null (ok = FALSE) or { shortcode, subdomain }.
NotShortUrl == [ok |-> FALSE, shortcode |-> NULL, subdomain |-> NULL]

\* A classifier without the reserved-path test.
parseShortUrlNoReservedPaths(hostname, pathname, rootDomain) ==
    LET pathSegments == PathSegments(pathname) IN
    IF Len(pathSegments) = 0 THEN NotShortUrl
    ELSE
      LET shortcode == pathSegments[1]
          subdomain == extractSubdomain(hostname, rootDomain)
          isRootDomain == hostname = rootDomain \/ hostname = localhost
          isOurSubdomain == subdomain # NULL /\ EndsWith(hostname, <<".">> \o rootDomain)
      IN
      IF ~isRootDomain /\ ~isOurSubdomain THEN NotShortUrl
      ELSE IF subdomain # NULL /\ subdomain \in RESERVED_SUBDOMAINS THEN NotShortUrl
      ELSE [ok |-> TRUE, shortcode |-> shortcode, subdomain |-> subdomain]

parseShortUrl(hostname, pathname, rootDomain) ==
    LET pathSegments == PathSegments(pathname) IN
    IF Len(pathSegments) = 0 THEN NotShortUrl
    ELSE
      LET shortcode == pathSegments[1]
          subdomain == extractSubdomain(hostname, rootDomain)
          isRootDomain == hostname = rootDomain \/ hostname = localhost
          isOurSubdomain == subdomain # NULL /\ EndsWith(hostname, <<".">> \o rootDomain)
      IN
      IF shortcode \in RESERVED_PATHS THEN NotShortUrl
      ELSE IF ~isRootDomain /\ ~isOurSubdomain THEN NotShortUrl
      ELSE IF subdomain # NULL /\ subdomain \in RESERVED_SUBDOMAINS THEN NotShortUrl
      ELSE [ok |-> TRUE, shortcode |-> shortcode, subdomain |-> subdomain]

\* The WHERE clause with expires_at >= datetime('now').
LookupMatchesInclusive(r, shortcode, subdomain) ==
    /\ IF subdomain = NULL THEN r.subdomain = NULL ELSE r.subdomain = subdomain
    /\ r.shortcode = shortcode
    /\ (r.expires_at = NoExpiry \/ r.expires_at >= now)

\* The WHERE clause without the subdomain condition.
LookupMatchesAnyPartition(r, shortcode, subdomain) ==
    /\ r.shortcode = shortcode
    /\ (r.expires_at = NoExpiry \/ r.expires_at > now)

\* The WHERE clause of lookupUrl for one row:
\*   (subdomain IS NULL | subdomain = ?) AND shortcode = ?
\*   AND (expires_at IS NULL OR expires_at > datetime('now'))
LookupMatches(r, shortcode, subdomain) ==
    /\ IF subdomain = NULL THEN r.subdomain = NULL ELSE r.subdomain = subdomain
    /\ r.shortcode = shortcode
    /\ (r.expires_at = NoExpiry \/ r.expires_at > now)

\* The rows lookupUrl may return (.first() of the query).
lookupUrl(shortcode, subdomain) ==
    {r \in urls : LookupMatches(r, shortcode, subdomain)}

NoResponse == [status |-> 0, location |-> Empty]

\* The method, and the hostname and pathname of new URL(request.url).
NoRequest == [method |-> "", hostname |-> Empty, pathname |-> Empty]

RedirIdle ==
    [pc |-> "idle", request |-> NoRequest,
     shortcode |-> NULL, subdomain |-> NULL, urlId |-> 0,
     originalUrl |-> NULL, response |-> NoResponse, click |-> "none",
     clickWrites |-> 0, aborted |-> FALSE]

\* handleRedirect returned null before any query: the request goes to the
\* application router.
RedirNull == [RedirIdle EXCEPT !.pc = "null"]

\* handleRedirect up to the store query (lines 84-101).
RedirStart(r, method, hostname, pathname) ==
    LET parsed == parseShortUrl(hostname, pathname, SITE_DOMAIN) IN
    /\ redir[r].pc = "idle"
    /\ redir' = [redir EXCEPT ![r] =
          [(IF method # "GET" THEN RedirNull
            ELSE IF ~parsed.ok THEN RedirNull
            ELSE [RedirIdle EXCEPT !.pc = "lookup", !.shortcode = parsed.shortcode,
                                   !.subdomain = parsed.subdomain])
           EXCEPT !.request = [method |-> method, hostname |-> hostname,
                               pathname |-> pathname]]]
    /\ UNCHANGED <<urls, nextUrlId, users, clicks, nextClickId, kv, now,
                   dash, anon, shortest, del>>

\* lookupUrl, and Response.redirect(urlRecord.originalUrl, 302) (lines 101-110).
RedirLookup(r) ==
    LET rec == redir[r]
        found == lookupUrl(rec.shortcode, rec.subdomain)
    IN
    /\ rec.pc = "lookup"
    /\ IF found = {}
       THEN redir' = [redir EXCEPT ![r] = [rec EXCEPT !.pc = "null"]]
       ELSE \E urlRecord \in found :
               redir' = [redir EXCEPT ![r] =
                  [rec EXCEPT !.pc = "found", !.urlId = urlRecord.id,
                     !.originalUrl = urlRecord.original_url,
                     !.response = [status |-> 302,
                                   location |-> RedirectLocation(urlRecord.original_url)]]]
    /\ UNCHANGED <<urls, nextUrlId, users, clicks, nextClickId, kv, now,
                   dash, anon, shortest, del>>

\* A rejection of the trackClick promise is caught and logged
\* (.catch((error) => console.error(...)), lines 125-127).
ClickFailedUncaught(rec) ==
    [rec EXCEPT !.click = "failed", !.response = [status |-> 500, location |-> Empty]]

ClickFailed(rec) == [rec EXCEPT !.click = "failed"]

\* ctx.waitUntil(trackClick(request, env, urlRecord.urlId).catch(...)) (lines
\* 124-128): the call runs trackClick up to its first await, so the request
\* metadata is read and the hash is started here; sync tells whether that
\* part threw (the rejection is caught).
RedirTrack(r, sync) ==
    LET rec == redir[r] IN
    /\ rec.pc = "found"
    /\ redir' = [redir EXCEPT ![r] =
          IF sync THEN [rec EXCEPT !.pc = "tracked", !.click = "hashing"]
          ELSE [ClickFailed(rec) EXCEPT !.pc = "tracked"]]
    /\ UNCHANGED <<urls, nextUrlId, users, clicks, nextClickId, kv, now,
                   dash, anon, shortest, del>>

\* return response (line 130).
RedirReturn(r) ==
    LET rec == redir[r] IN
    /\ rec.pc = "tracked"
    /\ redir' = [redir EXCEPT ![r] = [rec EXCEPT !.pc = "returned"]]
    /\ UNCHANGED <<urls, nextUrlId, users, clicks, nextClickId, kv, now,
                   dash, anon, shortest, del>>

\* fetch of workers/app.ts: applySecurityHeaders copies status and headers,
\* and the runtime sends the response to a client that is still connected.
RedirSend(r) ==
    LET rec == redir[r] IN
    /\ rec.pc = "returned"
    /\ ~rec.aborted
    /\ redir' = [redir EXCEPT ![r] = [rec EXCEPT !.pc = "sent"]]
    /\ UNCHANGED <<urls, nextUrlId, users, clicks, nextClickId, kv, now,
                   dash, anon, shortest, del>>

\* The client goes away before the response is sent. handleRedirect never
\* reads request.signal, and a promise handed to ctx.waitUntil is kept alive
\* by the runtime after the client is gone: the handler and trackClick go on.
RedirAbort(r) ==
    LET rec == redir[r] IN
    /\ rec.pc \in {"lookup", "found", "tracked", "returned"}
    /\ ~rec.aborted
    /\ redir' = [redir EXCEPT ![r] = [rec EXCEPT !.aborted = TRUE]]
    /\ UNCHANGED <<urls, nextUrlId, users, clicks, nextClickId, kv, now,
                   dash, anon, shortest, del>>

\* The handler's synchronous code has run to its return: continuations of
\* trackClick's awaits run only after it.
HandlerReturned(rec) == rec.pc \in {"returned", "sent"}

\* await hashVisitorIp(...) resolves or rejects (line 344).
RedirHash(r, ok) ==
    LET rec == redir[r] IN
    /\ rec.click = "hashing"
    /\ HandlerReturned(rec)
    /\ redir' = [redir EXCEPT ![r] =
          IF ok THEN [rec EXCEPT !.click = "inserting"] ELSE ClickFailed(rec)]
    /\ UNCHANGED <<urls, nextUrlId, users, clicks, nextClickId, kv, now,
                   dash, anon, shortest, del>>

\* A store that accepts a click row whatever its url_id.
ForeignKeyNotEnforced(url_id) == FALSE

\* FOREIGN KEY (url_id) REFERENCES urls(id): a row of url_clicks whose url_id
\* is the id of no row of urls is refused.
ForeignKeyFailed(url_id) == ~\E row \in urls : row.id = url_id

\* INSERT INTO url_clicks (...) succeeds or rejects (lines 346-352): ok tells
\* whether the store is reachable, and a reachable store refuses a row that
\* fails the foreign key. A rejection is caught and logged by the .catch of
\* handleRedirect.
RedirClickInsert(r, ok) ==
    LET rec == redir[r]
        inserted == ok /\ ~ForeignKeyFailed(rec.urlId)
    IN
    /\ rec.click = "inserting"
    /\ HandlerReturned(rec)
    /\ redir' = [redir EXCEPT ![r] =
          IF inserted
          THEN [rec EXCEPT !.click = "recorded", !.clickWrites = rec.clickWrites + 1]
          ELSE [ClickFailed(rec) EXCEPT !.clickWrites = rec.clickWrites + 1]]
    /\ IF inserted
       THEN /\ clicks' = clicks \cup {[id |-> nextClickId, url_id |-> rec.urlId]}
            /\ nextClickId' = nextClickId + 1
       ELSE UNCHANGED <<clicks, nextClickId>>
    /\ UNCHANGED <<urls, nextUrlId, users, kv, now, dash, anon, shortest, del>>

-----------------------------------------------------------------------------
(* Dashboard: the delete-url intent (app/routes/dashboard.tsx)             *)

\* formData.get("urlId") of a form without the field.
NoUrlId == -1

DelIdle == [pc |-> "idle", userId |-> NULL, numericUrlId |-> 0, status |-> 0]

DelDone(status) == [DelIdle EXCEPT !.pc = "done", !.status = status]

\* handleDeleteUrl up to the ownership query (lines 235-250).
DelStart(d, userId, urlId) ==
    /\ del[d].pc = "idle"
    /\ del' = [del EXCEPT ![d] =
          IF urlId = NoUrlId THEN DelDone(400)
          ELSE [DelIdle EXCEPT !.pc = "ownership", !.userId = userId,
                               !.numericUrlId = urlId]]
    /\ UNCHANGED <<urls, nextUrlId, users, clicks, nextClickId, kv, now,
                   dash, anon, shortest, redir>>

\* An ownership query on the id alone.
DelOwnershipAnyUser(d) ==
    LET rec == del[d]
        urlOwnership == {row \in urls : row.id = rec.numericUrlId}
    IN
    /\ rec.pc = "ownership"
    /\ del' = [del EXCEPT ![d] =
          IF urlOwnership = {} THEN DelDone(404) ELSE [rec EXCEPT !.pc = "qr_codes"]]
    /\ UNCHANGED <<urls, nextUrlId, users, clicks, nextClickId, kv, now,
                   dash, anon, shortest, redir>>

\* SELECT id FROM urls WHERE id = ? AND user_id = ?  (lines 259-269).
DelOwnership(d) ==
    LET rec == del[d]
        urlOwnership == {row \in urls : row.id = rec.numericUrlId /\ row.user_id = rec.userId}
    IN
    /\ rec.pc = "ownership"
    /\ del' = [del EXCEPT ![d] =
          IF urlOwnership = {} THEN DelDone(404) ELSE [rec EXCEPT !.pc = "qr_codes"]]
    /\ UNCHANGED <<urls, nextUrlId, users, clicks, nextClickId, kv, now,
                   dash, anon, shortest, redir>>

\* The QR images and the qr_codes rows of the URL are deleted (lines 278-293);
\* neither urls nor url_clicks is touched.
DelQrCodes(d) ==
    /\ del[d].pc = "qr_codes"
    /\ del' = [del EXCEPT ![d] = [del[d] EXCEPT !.pc = "url_clicks"]]
    /\ UNCHANGED <<urls, nextUrlId, users, clicks, nextClickId, kv, now,
                   dash, anon, shortest, redir>>

\* DELETE FROM url_clicks WHERE url_id = ?  (lines 295-298).
DelClicks(d) ==
    LET rec == del[d] IN
    /\ rec.pc = "url_clicks"
    /\ clicks' = {c \in clicks : c.url_id # rec.numericUrlId}
    /\ del' = [del EXCEPT ![d] = [rec EXCEPT !.pc = "urls"]]
    /\ UNCHANGED <<urls, nextUrlId, users, nextClickId, kv, now,
                   dash, anon, shortest, redir>>

\* The rows of url_clicks left by a delete of the rows `deleted` of urls:
\* FOREIGN KEY (url_id) REFERENCES urls(id) ON DELETE CASCADE.
OnDeleteCascade(deleted) ==
    {c \in clicks : ~\E row \in deleted : row.id = c.url_id}

\* DELETE FROM urls WHERE id = ? AND user_id = ?  (lines 300-305).
DelUrls(d) ==
    LET rec == del[d]
        deleted == {row \in urls : row.id = rec.numericUrlId /\ row.user_id = rec.userId}
    IN
    /\ rec.pc = "urls"
    /\ urls' = urls \ deleted
    /\ clicks' = OnDeleteCascade(deleted)
    /\ del' = [del EXCEPT ![d] = DelDone(200)]
    /\ UNCHANGED <<nextUrlId, users, nextClickId, kv, now,
                   dash, anon, shortest, redir>>

\* The store's clock advances.
MaxTime == ExpiryDays * DaySeconds + 1

Tick ==
    /\ now < MaxTime
    /\ now' = now + 1
    /\ UNCHANGED <<urls, nextUrlId, users, clicks, nextClickId, kv,
                   dash, anon, shortest, redir, del>>

-----------------------------------------------------------------------------
(* Specifications                                                          *)

AnonReqs == 1..(MAX_ANONYMOUS_URLS_PER_DAY + 1)
ShortReqs == {1, 2}
RedirReqs == {1}
DelReqs == {1, 2}

Init ==
    /\ urls = {}
    /\ nextUrlId = 1
    /\ users = [u \in Users |-> NULL]
    /\ clicks = {}
    /\ nextClickId = 1
    /\ kv = <<>>
    /\ now = 0
    /\ dash = [d \in DashReqs |-> DashIdle]
    /\ anon = [a \in AnonReqs |-> AnonIdle]
    /\ shortest = [s \in ShortReqs |-> ShortIdle]
    /\ redir = [r \in RedirReqs |-> RedirIdle]
    /\ del = [d \in DelReqs |-> DelIdle]

SetSubdomainNext(U, subdomainInputs) ==
    \E userId \in U, rawSubdomain \in subdomainInputs :
        SetSubdomain(userId, rawSubdomain)

AnonNext(A, urlInputs, generated) ==
    \E a \in A :
       \/ \E originalUrl \in urlInputs, turnstileToken \in {Empty, <<"t">>},
             clientIp \in ClientIps :
             /\ \A e \in A : e < a => anon[e].pc # "idle"
             /\ AnonStart(a, originalUrl, turnstileToken, clientIp)
       \/ \E success \in BOOLEAN : AnonTurnstile(a, success)
       \/ AnonRate(a)
       \/ \E candidate \in generated : AnonGenerate(a, candidate)
       \/ AnonInsert(a)
       \/ AnonIncrGet(a)
       \/ AnonIncrPut(a)

\* Anonymous requests A from the sources ips; when sequential, a request
\* arrives only after the earlier ones were answered.
AnonRequests(A, sequential, urlInputs, tokens, ips, generated) ==
    \E a \in A :
       \/ \E originalUrl \in urlInputs, turnstileToken \in tokens, clientIp \in ips :
             /\ \A e \in A : e < a =>
                    IF sequential THEN anon[e].pc = "done" ELSE anon[e].pc # "idle"
             /\ AnonStart(a, originalUrl, turnstileToken, clientIp)
       \/ \E success \in BOOLEAN : AnonTurnstile(a, success)
       \/ AnonRate(a)
       \/ \E candidate \in generated : AnonGenerate(a, candidate)
       \/ AnonInsert(a)
       \/ AnonIncrGet(a)
       \/ AnonIncrPut(a)

ShortNext(S, U, generated) ==
    \E s \in S :
       \/ \E userId \in U, urlId \in 1..(nextUrlId - 1) :
             /\ \A e \in S : e < s => shortest[e].pc # "idle"
             /\ ShortStart(s, userId, urlId)
       \/ ShortCount(s)
       \/ ShortExisting(s)
       \/ ShortTaken(s)
       \/ \E candidate \in generated : ShortGenerate(s, candidate)
       \/ ShortInsert(s)

RedirNext(R, hostnames, pathnames) ==
    \E r \in R :
       \/ \E method \in {"GET", "POST"}, hostname \in hostnames, pathname \in pathnames :
             /\ \A e \in R : e < r => redir[e].pc # "idle"
             /\ RedirStart(r, method, hostname, pathname)
       \/ RedirLookup(r)
       \/ \E sync \in BOOLEAN : RedirTrack(r, sync)
       \/ RedirReturn(r)
       \/ RedirSend(r)
       \/ \E ok \in BOOLEAN : RedirHash(r, ok)
       \/ \E ok \in BOOLEAN : RedirClickInsert(r, ok)

DelNext(D, U, urlIds) ==
    \E d \in D :
       \/ \E userId \in U, urlId \in urlIds :
             /\ \A e \in D : e < d => del[e].pc # "idle"
             /\ DelStart(d, userId, urlId)
       \/ DelOwnership(d)
       \/ DelQrCodes(d)
       \/ DelClicks(d)
       \/ DelUrls(d)

\* Allocation of short links by the three creation paths, racing one another.
Next ==
    \/ SetSubdomainNext({u1}, SubdomainInputs)
    \/ DashNext({1, 2}, {u1}, {urlNoPath, <<"a",".","b">>}, {"short", "branded"},
                {abc, <<"A","b","c","d","e","f"," ">>, <<"a","p","i">>}, {abcdef})
    \/ AnonNext({1}, {urlNoPath}, {abcdef})
    \/ ShortNext({1}, {u1}, {abcdef})

Spec == Init /\ [][Next]_vars

\* One owner at the quota: dashboard creations and shortest-URL resolutions
\* racing one another.
NextQuota ==
    \/ SetSubdomainNext({u1}, {stp})
    \/ DashNext(DashReqs, {u1}, {urlPath}, {"short", "branded"}, {abc}, {abcdef})
    \/ ShortNext(ShortReqs, {u1}, {abcdef})

SpecQuota == Init /\ [][NextQuota]_vars

RedirHosts ==
    { SITE_DOMAIN, stp \o <<".">> \o SITE_DOMAIN, foo \o <<".">> \o SITE_DOMAIN }

RedirPaths == { <<"/">> \o abcdef, <<"/">> }

\* Creation, the passage of time, and redirect requests.
NextRedirect ==
    \/ SetSubdomainNext({u1}, {stp})
    \/ DashNext({1}, {u1}, {urlNoPath, <<" ">> \o urlPath}, {"short", "branded"},
                {abcdef}, {abcdef})
    \/ AnonNext({1}, {urlNoPath}, {abcdef})
    \/ RedirNext(RedirReqs, RedirHosts, RedirPaths)
    \/ Tick

SpecRedirect == Init /\ [][NextRedirect]_vars

\* Redirect requests whose client may go away before the response is sent.
NextAbort ==
    \/ SetSubdomainNext({u1}, {stp})
    \/ DashNext({1, 2}, {u1}, {urlNoPath}, {"short", "branded"}, {abc}, {abcdef})
    \/ RedirNext(RedirReqs, {SITE_DOMAIN}, {<<"/">> \o abcdef, <<"/">> \o abc})
    \/ \E r \in RedirReqs : RedirAbort(r)

SpecAbort == Init /\ [][NextAbort]_vars

DeleteUrlIds == {NoUrlId, 1, 2}

\* Anonymous and dashboard creations, delete-url requests and the passage of
\* time beyond the expiry of the anonymous mappings.
NextExpiry ==
    \/ SetSubdomainNext({u1}, {stp})
    \/ DashNext({1}, {u1}, {urlNoPath}, {"short", "branded"}, {abcdef}, {abcdef})
    \/ AnonNext({1}, {urlNoPath}, {abcdef})
    \/ DelNext({1}, {u1}, DeleteUrlIds)
    \/ Tick

SpecExpiry == Init /\ [][NextExpiry]_vars

\* Two users choosing and changing their subdomains and creating branded
\* and short URLs.
NextOwnership ==
    \/ SetSubdomainNext({u1, u2}, {stp, foo})
    \/ DashNext({1, 2}, {u1, u2}, {urlNoPath}, {"short", "branded"}, {abc}, {abcdef})

SpecOwnership == Init /\ [][NextOwnership]_vars


\* Creation, redirects with their deferred click writes, and delete-url
\* requests of the owner and of another user.
NextDelete ==
    \/ SetSubdomainNext({u1}, {stp})
    \/ DashNext({1, 2}, {u1}, {urlNoPath}, {"short", "branded"}, {abcdef}, {abcdef})
    \/ RedirNext(RedirReqs, {SITE_DOMAIN}, {<<"/">> \o abcdef})
    \/ DelNext(DelReqs, {u1, u2}, DeleteUrlIds)

SpecDelete == Init /\ [][NextDelete]_vars

\* Shortcodes generateShortcode returns in the rate-limit scenarios.
CycleCodes ==
    { <<"c","o","d","e","0",d>> : d \in {"1","2","3","4","5","6"} }

\* Successive anonymous creations of one source within one day.
NextCycles ==
    AnonRequests(AnonReqs, TRUE, {urlNoPath}, {<<"t">>}, {"ip1"}, CycleCodes)

SpecCycles == Init /\ [][NextCycles]_vars

CycleCode(i) == <<"c","o","d","e","0", <<"1","2","3","4","5","6">>[i]>>

\* The store after c successive anonymous creations of source ip1 at time 0
\* (the states SpecCycles reaches after c cycles), for every c up to the
\* daily maximum.
InitRate ==
    /\ now = 0
    /\ \E c \in 0..MAX_ANONYMOUS_URLS_PER_DAY :
          /\ urls = {UrlRow(i, NULL, CycleCode(i), urlNoPath, NULL,
                            ExpiryDays * DaySeconds) : i \in 1..c}
          /\ nextUrlId = c + 1
          /\ kv = [k \in (IF c = 0 THEN {} ELSE {buildKey("ip1")}) |->
                     [value |-> c, expiration |-> TTL_SECONDS]]
    /\ users = [u \in Users |-> NULL]
    /\ clicks = {}
    /\ nextClickId = 1
    /\ dash = [d \in DashReqs |-> DashIdle]
    /\ anon = [a \in AnonReqs |-> AnonIdle]
    /\ shortest = [s \in ShortReqs |-> ShortIdle]
    /\ redir = [r \in RedirReqs |-> RedirIdle]
    /\ del = [d \in DelReqs |-> DelIdle]

\* Concurrent anonymous creations of two sources across a day boundary.
NextRate ==
    \/ AnonRequests({1, 2}, FALSE, {urlNoPath, <<"a",".","b">>}, {Empty, <<"t">>},
                    {"ip1", "ip2"}, {CycleCode(1), CycleCode(6)})
    \/ Tick

SpecRate == InitRate /\ [][NextRate]_vars

\* Two concurrent anonymous creations of one source within one day.
NextBurst ==
    AnonRequests({1, 2}, FALSE, {urlNoPath}, {Empty, <<"t">>}, {"ip1"},
                 {CycleCode(5), CycleCode(6)})

SpecBurst == InitRate /\ [][NextBurst]_vars

\* Two concurrent shortest-URL resolutions of one owner with room in the
\* quota, over mappings of the owner and of another user.
NextShortest ==
    \/ SetSubdomainNext({u2}, {stp})
    \/ DashNext({1, 2}, {u1, u2}, {urlNoPath, urlPath}, {"short", "branded"},
                {abcdef}, {abcdef, CycleCode(1)})
    \/ ShortNext(ShortReqs, {u2}, {abcdef, CycleCode(1), CycleCode(2)})

SpecShortest == Init /\ [][NextShortest]_vars


ClassifyHosts ==
    { SITE_DOMAIN, localhost, loopback,
      stp \o <<".">> \o SITE_DOMAIN,
      <<"a","p","p",".">> \o SITE_DOMAIN,
      stp \o <<".","x",".">> \o SITE_DOMAIN,
      <<"x">> \o SITE_DOMAIN,
      <<"x",".","c","o","m">> }

ClassifyPaths ==
    { Empty, <<"/">>, <<"/","/">>, <<"/">> \o abcdef, <<"/","/">> \o abcdef \o <<"/">>,
      <<"/","l","o","g","i","n">>, <<"/","l","o","g","i","n","/","x">>,
      <<"/","x","/","l","o","g","i","n">> }

\* Requests of every kind the classifier distinguishes, over a store that
\* holds mappings in the global partition and under a subdomain.
NextClassify ==
    \/ SetSubdomainNext({u1}, {stp})
    \/ DashNext({1}, {u1}, {urlNoPath}, {"short", "branded"}, {abcdef}, {abcdef})
    \/ RedirNext({1}, ClassifyHosts, ClassifyPaths)

SpecClassify == Init /\ [][NextClassify]_vars

signup == <<"s","i","g","n","u","p">>

\* Values of the customShortcode form field that meet every rule of the
\* validator, alone and together with later ones.
ValidatorInputs ==
    { Empty, <<" "," ">>, <<"a","b">>, <<"-","a">>, <<"a","_">>,
      [i \in 1..(MAX_CUSTOM_LENGTH + 1) |-> "a"],
      [i \in 1..(MAX_CUSTOM_LENGTH + 1) |-> "-"],
      [i \in 1..MAX_CUSTOM_LENGTH |-> "a"],
      <<"a","_","b">>, <<"-","a","b","c">>, <<"a","b","c","-">>, <<"a","-","-">>,
      <<"a","b",".","c">>, <<"a","-","-","b">>, <<"a","p","i","-","-","x">>,
      abc, <<"m","y","-","p","a","g","e">>, <<" ","A","b","c","d","e","f"," ">>,
      <<"L","o","g","i","n">> }
    \cup RESERVED_SHORTCODES \cup RESERVED_PATHS

\* Creations with custom and generated shortcodes, the generator drawing a
\* word of the reserved set among others.
NextValidate ==
    \/ SetSubdomainNext({u1}, {stp})
    \/ DashNext({1}, {u1}, {urlNoPath}, {"short", "branded"}, ValidatorInputs,
                {abcdef, signup})
    \/ AnonNext({1}, {urlNoPath}, {abcdef, signup})
    \/ ShortNext({1}, {u1}, {abcdef, signup})

SpecValidate == Init /\ [][NextValidate]_vars

-----------------------------------------------------------------------------
(* Properties                                                              *)

\* The partition of a row, an absent one normalized to the empty value.
NormalizedPartition(row) == IF row.subdomain = NULL THEN Empty ELSE row.subdomain

\* A creation request was refused by the unique index at its INSERT.
RefusedByUniqueIndex ==
    \/ \E d \in DashReqs : dash[d].error = UniqueConstraintError
    \/ \E a \in AnonReqs : anon[a].error = UniqueConstraintError
    \/ \E s \in ShortReqs : shortest[s].error = ConflictError

\* C1: in every reachable state, whatever the interleaving of dashboard,
\* anonymous and shortest-URL creations, no two stored mappings have the same
\* shortcode and the same normalized partition (NULL normalized to empty), so
\* two global mappings with one shortcode never coexist.
PartitionIdentifierUnique ==
    \A r1, r2 \in urls :
        r1.id # r2.id =>
            ~(/\ r1.shortcode = r2.shortcode
              /\ NormalizedPartition(r1) = NormalizedPartition(r2))

\* A racing insert was refused while the same shortcode is stored in two
\* different partitions.
PartitionIdentifierUniqueWitness ==
    /\ RefusedByUniqueIndex
    /\ \E r1, r2 \in urls :
          /\ r1.shortcode = r2.shortcode
          /\ NormalizedPartition(r1) # NormalizedPartition(r2)

\* C2: after any interleaving of concurrent dashboard creations by one
\* owner, the owner never holds more mappings than the quota.
DashboardQuotaRespected ==
    \A userId \in Users : CountUrls(userId) <= MAX_URLS_PER_USER

\* C3: a resolveShortestUrl call inserts a mapping only if, in the state in
\* which its insert executes, the owner's count is strictly below maxUrls, and
\* the insert never lifts the count above maxUrls, however many calls passed
\* the pre-check on a stale count; a call that is refused stores nothing.
AtomicQuotaInsert ==
    [][\A s \in ShortReqs :
          (shortest[s].pc = "insert" /\ shortest'[s].pc = "done") =>
             IF shortest'[s].autoCreated
             THEN /\ CountUrls(shortest[s].userId) < maxUrls
                  /\ Cardinality({row \in urls' : row.user_id = shortest[s].userId})
                        = CountUrls(shortest[s].userId) + 1
             ELSE urls' = urls]_vars

\* Of two calls that passed the pre-check, one inserted and the other was
\* refused by the conditional insert.
AtomicQuotaInsertWitness ==
    \E s, t \in ShortReqs :
        /\ shortest[s].changes = 1 /\ shortest[s].autoCreated
        /\ shortest[t].changes = 0 /\ shortest[t].error = LimitError

\* C4: in the dashboard and the anonymous creation paths, a request whose
\* insert the store refuses for uniqueness never ends with the store's raw
\* fault; it ends with a conflict outcome.
UniquenessViolationIsConflict ==
    /\ \A d \in DashReqs : dash[d].error # UniqueConstraintError
    /\ \A a \in AnonReqs : anon[a].error # UniqueConstraintError

\* C5: a 302 answered for a mapping stored by the dashboard carries as
\* Location exactly the stored destination string.
RoundTripExact ==
    \A r \in RedirReqs :
        redir[r].response.status = 302 =>
            \A row \in urls :
                (row.id = redir[r].urlId /\ row.user_id # NULL) =>
                    redir[r].response.location = row.original_url

\* The mappings of the partition and shortcode that request r looks up.
Addressed(r) ==
    {row \in urls : /\ row.shortcode = redir[r].shortcode
                    /\ row.subdomain = redir[r].subdomain}

\* C6: the lookup of a request resolves to a mapping only if that mapping's
\* expires_at is absent or strictly later than the current time: with no
\* such mapping (none stored, or expires_at = now or earlier) handleRedirect
\* returns null with no response, and with one it resolves.
ExpiryStrict ==
    [][\A r \in RedirReqs :
          (redir[r].pc = "lookup" /\ redir'[r].pc # "lookup") =>
             LET live == {row \in Addressed(r) :
                             row.expires_at = NoExpiry \/ row.expires_at > now}
             IN  IF live = {}
                 THEN redir'[r].pc = "null" /\ redir'[r].response = NoResponse
                 ELSE /\ redir'[r].pc = "found"
                      /\ redir'[r].urlId \in {row.id : row \in live}]_vars

\* A request was answered null although its mapping is stored, expiring at
\* exactly the current time.
ExpiryStrictWitness ==
    \E r \in RedirReqs :
        /\ redir[r].pc = "null"
        /\ \E row \in Addressed(r) : row.expires_at = now

\* C7: a request classified to a partition and a shortcode is redirected only
\* to the destination of a mapping stored under exactly that partition and
\* shortcode (global being a partition of its own).
PartitionIsolation ==
    \A r \in RedirReqs :
        redir[r].response.status = 302 =>
            \E row \in Addressed(r) :
                /\ row.id = redir[r].urlId
                /\ row.original_url = redir[r].originalUrl

\* A request for the global partition was answered null while the same
\* shortcode is stored, unexpired, under a subdomain.
PartitionIsolationWitness ==
    \E r \in RedirReqs :
        /\ redir[r].pc = "null"
        /\ redir[r].shortcode # NULL
        /\ redir[r].subdomain = NULL
        /\ \E row \in urls : /\ row.shortcode = redir[r].shortcode
                             /\ row.subdomain # NULL
                             /\ row.expires_at = NoExpiry

\* The stored mappings with the partition and custom shortcode of request d.
SameKey(d) ==
    {row \in urls : /\ row.shortcode = dash[d].customShortcode
                    /\ row.subdomain = dash[d].urlSubdomain}

\* C8: a dashboard creation with a custom shortcode that reaches the
\* uniqueness check is rejected with "already taken", storing nothing, exactly
\* when a mapping with the same shortcode is stored in the same partition; a
\* mapping with that shortcode in another partition does not reject it, and
\* its insert succeeds when the key is still free.
ConflictIsPartitionScoped ==
    [][\A d \in DashReqs :
          /\ (dash[d].pc = "exists" /\ dash'[d].pc # "exists") =>
                IF SameKey(d) # {}
                THEN /\ dash'[d].status = 409
                     /\ dash'[d].error = "Shortcode is already taken."
                     /\ urls' = urls
                ELSE dash'[d].pc = "insert"
          /\ (/\ dash[d].pc = "insert" /\ dash'[d].pc # "insert"
              /\ dash[d].useCustomShortcode /\ SameKey(d) = {}) =>
                /\ dash'[d].status = 200
                /\ \E row \in urls' \ urls :
                      /\ row.shortcode = dash[d].customShortcode
                      /\ row.subdomain = dash[d].urlSubdomain]_vars

\* One request was rejected as taken, and the same shortcode is stored in
\* two partitions.
ConflictIsPartitionScopedWitness ==
    /\ \E d \in DashReqs : dash[d].status = 409
    /\ \E d \in DashReqs : dash[d].status = 200
    /\ \E r1, r2 \in urls :
          /\ r1.shortcode = r2.shortcode
          /\ NormalizedPartition(r1) # NormalizedPartition(r2)
          /\ r1.user_id # NULL

\* C9: a failure of the click recorder leaves the redirect response as it
\* was built, a 302 to the mapping's destination, and the click write is
\* attempted at most once.
ClickFailureIsolated ==
    \A r \in RedirReqs :
        redir[r].click = "failed" =>
            /\ redir[r].response.status = 302
            /\ \E row \in urls :
                  /\ row.id = redir[r].urlId
                  /\ redir[r].response.location = RedirectLocation(row.original_url)
            /\ redir[r].clickWrites <= 1

\* The click insert failed and the 302 was sent.
ClickFailureIsolatedWitness ==
    \E r \in RedirReqs :
        /\ redir[r].click = "failed"
        /\ redir[r].clickWrites = 1
        /\ redir[r].pc = "sent"
        /\ redir[r].response.status = 302

\* C10: no step of trackClick has happened while handleRedirect has not yet
\* returned the 302.
ClickAfterResponse ==
    \A r \in RedirReqs :
        redir[r].click # "none" => redir[r].pc \in {"returned", "sent"}

\* The successful creations among the requests up to a.
Successes(a) ==
    Cardinality({e \in AnonReqs : e <= a /\ anon[e].pc = "done" /\ anon[e].status = 200})

\* C11: for successive requests of one source on one day, starting with no
\* counter, the k-th successful check-increment cycle reports remaining
\* 5 - k (4, 3, 2, 1, 0), a request is refused as over the limit exactly after
\* five successes, and the check step never writes the rate-limit store.
RateCycles ==
    /\ [](\A a \in AnonReqs :
            /\ (anon[a].pc = "done" /\ anon[a].status = 200) =>
                  /\ anon[a].remaining = MAX_ANONYMOUS_URLS_PER_DAY - Successes(a)
                  /\ anon[a].remaining >= 0
            /\ anon[a].status = 429 => Successes(a) = MAX_ANONYMOUS_URLS_PER_DAY)
    /\ [][\A a \in AnonReqs :
            (anon[a].pc = "rate" /\ anon'[a].pc # "rate") =>
               /\ kv' = kv
               /\ (anon'[a].status = 429) <=>
                     (Successes(a) >= MAX_ANONYMOUS_URLS_PER_DAY)]_vars

\* Five creations succeeded, the fifth with remaining 0, and the next
\* request was refused.
RateCyclesWitness ==
    /\ \E a \in AnonReqs : anon[a].status = 200 /\ anon[a].remaining = 0
    /\ \E a \in AnonReqs : anon[a].status = 429

\* C13: the captcha verification call is made only for a source that is
\* below its daily limit.
RateCheckBeforeCaptcha ==
    \A a \in AnonReqs :
        anon[a].pc = "rate" =>
            KvCount(buildKey(anon[a].clientIp)) < MAX_ANONYMOUS_URLS_PER_DAY

TodayEntries(clientIp) ==
    {k \in DOMAIN kv : /\ k[2] = clientIp
                       /\ k[3] = now \div DaySeconds
                       /\ kv[k].expiration > now}

\* C14: the result of a check depends only on the counter of the same
\* source and the same calendar day: with no counter for the source today
\* the request is allowed, whatever counters of earlier days or of other
\* sources are stored and unexpired, and with one it is allowed exactly when
\* that counter is below the maximum.
CountersKeyedBySourceAndDay ==
    [][\A a \in AnonReqs :
          (anon[a].pc = "rate" /\ anon'[a].pc # "rate") =>
             IF \A k \in TodayEntries(anon[a].clientIp) :
                   kv[k].value < MAX_ANONYMOUS_URLS_PER_DAY
             THEN anon'[a].pc = "generate"
             ELSE anon'[a].status = 429]_vars

\* A request of a source was allowed on the day after the source exhausted
\* its quota, while the exhausted counter is still stored and unexpired.
CountersKeyedBySourceAndDayWitness ==
    \E a \in AnonReqs :
        /\ anon[a].pc = "generate"
        /\ \E k \in DOMAIN kv :
              /\ k[2] = anon[a].clientIp
              /\ k[3] < now \div DaySeconds
              /\ kv[k].expiration > now
              /\ kv[k].value >= MAX_ANONYMOUS_URLS_PER_DAY

\* The host lies under the root domain.
UnderRootDomain(hostname) == EndsWith(hostname, <<".">> \o SITE_DOMAIN)

\* The request is of a kind the classifier rejects: not a GET, no path
\* segment, a reserved first segment, a host outside the root domain, or a
\* reserved partition label.
ClassifierRejects(request) ==
    \/ request.method # "GET"
    \/ PathSegments(request.pathname) = <<>>
    \/ /\ PathSegments(request.pathname) # <<>>
       /\ PathSegments(request.pathname)[1] \in RESERVED_PATHS
    \/ /\ request.hostname \notin {SITE_DOMAIN, localhost}
       /\ ~UnderRootDomain(request.hostname)
    \/ \E label \in RESERVED_SUBDOMAINS :
          request.hostname = label \o <<".">> \o SITE_DOMAIN

\* C15: a request of a kind the classifier rejects is answered null straight
\* from classification: it never reaches the store query, no response is
\* built and no click record is scheduled or written.
RejectedWithoutQuery ==
    \A r \in RedirReqs :
        (redir[r].pc # "idle" /\ ClassifierRejects(redir[r].request)) =>
            /\ redir[r].pc = "null"
            /\ redir[r].shortcode = NULL
            /\ redir[r].response = NoResponse
            /\ redir[r].click = "none"
            /\ redir[r].clickWrites = 0

\* A GET for a stored shortcode on a reserved partition label was answered
\* null.
RejectedWithoutQueryWitness ==
    \E r \in RedirReqs :
        /\ redir[r].pc = "null"
        /\ redir[r].request.method = "GET"
        /\ redir[r].request.hostname \in
              {label \o <<".">> \o SITE_DOMAIN : label \in RESERVED_SUBDOMAINS}
        /\ \E row \in urls : PathSegments(redir[r].request.pathname) = <<row.shortcode>>

\* The first dot-separated label of a host.
LeadingLabel(hostname) == SubSeq(hostname, 1, IndexOf(hostname, ".") - 1)

\* C16: for a GET with an eligible path, the root domain or the local alias
\* gives the global partition, a host ending in .rootDomain gives the
\* partition of its leading label (rejected when that label is reserved), and
\* every other host is no lookup.
PartitionIsLeadingLabel ==
    \A r \in RedirReqs :
        (/\ redir[r].pc # "idle"
         /\ redir[r].request.method = "GET"
         /\ PathSegments(redir[r].request.pathname) # <<>>
         /\ PathSegments(redir[r].request.pathname)[1] \notin RESERVED_PATHS) =>
            LET hostname == redir[r].request.hostname
                accepted == redir[r].shortcode # NULL
            IN  IF hostname \in {SITE_DOMAIN, localhost}
                THEN accepted /\ redir[r].subdomain = NULL
                ELSE IF UnderRootDomain(hostname)
                THEN IF LeadingLabel(hostname) \in RESERVED_SUBDOMAINS
                     THEN ~accepted
                     ELSE accepted /\ redir[r].subdomain = LeadingLabel(hostname)
                ELSE ~accepted

\* The shortcode is stored in the partition.
Taken(shortcode, subdomain) ==
    \E row \in urls :
        /\ row.shortcode = shortcode
        /\ NormalizedPartition(row) = (IF subdomain = NULL THEN Empty ELSE subdomain)

\* One generate-and-check step of a caller: from attempt number attempt (from
\* 0) in the partition subdomain, to the position next with shortcode chosen
\* and attempt number attemptNext, or to the caller's exhaustion failure.
GenerateStep(attempt, subdomain, next, chosen, attemptNext, exhausted) ==
    /\ attempt < MAX_COLLISION_RETRIES
    /\ next = "insert" => ~Taken(chosen, subdomain)
    /\ next = "generate" =>
          /\ attemptNext = attempt + 1
          /\ attemptNext < MAX_COLLISION_RETRIES
          /\ \E row \in urls : Taken(row.shortcode, subdomain)
    /\ next = "done" =>
          /\ exhausted
          /\ attempt = MAX_COLLISION_RETRIES - 1
          /\ \E row \in urls : Taken(row.shortcode, subdomain)
          /\ urls' = urls

\* C17: generateUniqueShortcode makes at most MAX_COLLISION_RETRIES (5)
\* generate-and-check attempts: an attempt returns its candidate exactly when
\* the candidate is not stored in the target partition at the check, the
\* result is null exactly when the fifth attempt collides too, there is no
\* sixth attempt, and each caller answers null with its exhaustion failure,
\* inserting nothing.
BoundedGeneration ==
    /\ [](/\ \A d \in DashReqs : dash[d].attempt < MAX_COLLISION_RETRIES
          /\ \A a \in AnonReqs : anon[a].attempt < MAX_COLLISION_RETRIES
          /\ \A s \in ShortReqs : shortest[s].attempt < MAX_COLLISION_RETRIES
          /\ \A candidate \in GeneratedCodes, subdomain \in {NULL, stp},
                attempt \in 0..(MAX_COLLISION_RETRIES - 1) :
                LET generated == generateUniqueShortcode(attempt, candidate, subdomain) IN
                /\ generated.state = "found" <=> ~Taken(candidate, subdomain)
                /\ generated.state = "found" => generated.shortcode = candidate
                /\ generated.state = "exhausted" <=>
                      (Taken(candidate, subdomain) /\ attempt = MAX_COLLISION_RETRIES - 1))
    /\ [][/\ \A d \in DashReqs :
               (dash[d].pc = "generate" /\ dash'[d] # dash[d]) =>
                  GenerateStep(dash[d].attempt, dash[d].urlSubdomain, dash'[d].pc,
                     dash'[d].shortcode, dash'[d].attempt,
                     dash'[d].status = 500 /\ dash'[d].error =
                        "Failed to generate a unique shortcode after multiple attempts. Please try again.")
          /\ \A a \in AnonReqs :
               (anon[a].pc = "generate" /\ anon'[a] # anon[a]) =>
                  GenerateStep(anon[a].attempt, NULL, anon'[a].pc,
                     anon'[a].shortcode, anon'[a].attempt,
                     anon'[a].status = 500 /\ anon'[a].error =
                        "Failed to generate a unique shortcode. Please try again.")
          /\ \A s \in ShortReqs :
               (shortest[s].pc = "generate"
                  /\ <<shortest'[s].pc, shortest'[s].attempt>>
                        # <<shortest[s].pc, shortest[s].attempt>>) =>
                  GenerateStep(shortest[s].attempt, NULL, shortest'[s].pc,
                     shortest'[s].newShortcode, shortest'[s].attempt,
                     shortest'[s].error = ExhaustedError /\ ~shortest'[s].autoCreated)]_vars

\* A dashboard creation ended in the exhaustion failure while a generated
\* shortcode is stored.
BoundedGenerationWitness ==
    /\ \E d \in DashReqs :
          dash[d].error =
             "Failed to generate a unique shortcode after multiple attempts. Please try again."
    /\ \E row \in urls : row.shortcode \in GeneratedCodes

\* The global mappings of the owner of call s with the destination of its
\* source mapping.
Reusable(s) ==
    {row \in urls : /\ row.subdomain = NULL
                    /\ row.user_id = shortest[s].userId
                    /\ row.original_url = shortest[s].urlRecord.original_url}

ShortestFailures ==
    /\ [](/\ Cardinality({LimitError, ConflictError, ExhaustedError}) = 3
          /\ \A s \in ShortReqs :
                (shortest[s].pc = "done" /\ shortest[s].error # NoError) =>
                   /\ shortest[s].encodedUrl = Empty
                   /\ ~shortest[s].autoCreated)
    /\ [][\A s \in ShortReqs :
            /\ (shortest[s].pc = "insert" /\ shortest'[s].pc = "done") =>
                  IF CountUrls(shortest[s].userId) >= maxUrls
                  THEN shortest'[s].error = LimitError /\ urls' = urls
                  ELSE IF Taken(shortest[s].newShortcode, NULL)
                  THEN shortest'[s].error = ConflictError /\ urls' = urls
                  ELSE shortest'[s].error = NoError /\ shortest'[s].autoCreated
            /\ (shortest[s].pc = "generate" /\ shortest'[s].pc = "done") =>
                  shortest'[s].error = ExhaustedError /\ urls' = urls]_vars

\* A call ended in the conflict error with the owner below quota.
ShortestFailuresWitness ==
    \E s \in ShortReqs :
        /\ shortest[s].error = ConflictError
        /\ CountUrls(u1) < maxUrls

\* C20: whatever the interleaving of redirects, their deferred click writes
\* and delete-url requests, every row of url_clicks carries the id of a row of
\* urls: the delete of a mapping removes all of its clicks, and a click write
\* that reaches the store after its mapping was deleted stores nothing.
NoOrphanClicks ==
    /\ [](\A c \in clicks : \E row \in urls : row.id = c.url_id)
    /\ [][\A r \in RedirReqs :
            (redir[r].click = "inserting" /\ redir'[r].click # "inserting"
             /\ ~\E row \in urls : row.id = redir[r].urlId) =>
                (clicks' = clicks /\ redir'[r].click = "failed")]_vars
    /\ [][\A row \in urls \ urls' : \A c \in clicks' : c.url_id # row.id]_vars

\* A click write reached the store after a delete-url request had removed its
\* mapping, and was refused.
NoOrphanClicksWitness ==
    \E r \in RedirReqs, d \in DelReqs :
        /\ redir[r].click = "failed"
        /\ redir[r].clickWrites = 1
        /\ redir[r].pc = "sent"
        /\ del[d].pc = "done" /\ del[d].status = 200
        /\ ~\E row \in urls : row.id = redir[r].urlId

\* The rules of the identifier validator, in their order, and the reason
\* each gives.
AllowedShortcodeChars == Digits \cup Range(LowerChars) \cup {"-"}

FirstFailure(cleaned) ==
    IF cleaned = Empty THEN 1
    ELSE IF Len(cleaned) < 3 THEN 2
    ELSE IF Len(cleaned) > 30 THEN 3
    ELSE IF \/ \E i \in DOMAIN cleaned : cleaned[i] \notin AllowedShortcodeChars
            \/ cleaned[1] = "-"
            \/ cleaned[Len(cleaned)] = "-" THEN 4
    ELSE IF \E i \in 1..(Len(cleaned) - 1) : cleaned[i] = "-" /\ cleaned[i + 1] = "-" THEN 5
    ELSE IF cleaned \in RESERVED_SHORTCODES THEN 6
    ELSE 0

RuleReasons ==
    << "Shortcode is required.",
       "Shortcode must be at least 3 characters.",
       "Shortcode must be 30 characters or fewer.",
       "Only lowercase letters, numbers, and hyphens allowed. Must start and end with a letter or number.",
       "Shortcode cannot contain consecutive hyphens.",
       "is reserved and cannot be used." >>

\* C21: validateCustomShortcode tests, on the trimmed and lowercased input,
\* non-empty, minimum length 3, maximum length 30, the pattern, no consecutive
\* hyphens and not reserved, in that order; it returns the reason of the first
\* rule that fails, each rule having its own reason, and returns valid with no
\* error exactly when no rule fails. A dashboard creation goes past the
\* validation only with a shortcode that meets all the rules.
ValidatorFirstFailureWins ==
    /\ Cardinality(Range(RuleReasons)) = Len(RuleReasons)
    /\ \A shortcode \in ValidatorInputs :
          LET result == validateCustomShortcode(shortcode)
              k == FirstFailure(ToLowerCase(Trim(shortcode)))
          IN  IF k = 0
              THEN result.isValid /\ result.error = NoError
              ELSE ~result.isValid /\ result.error = RuleReasons[k]
    /\ \A d \in DashReqs :
          (dash[d].useCustomShortcode /\ dash[d].pc \in {"exists", "insert"}) =>
             FirstFailure(dash[d].customShortcode) = 0

\* Every rule is the first to fail for some input, some input passes, and a
\* creation was refused for consecutive hyphens.
ValidatorFirstFailureWinsWitness ==
    /\ \A k \in 0..Len(RuleReasons) :
          \E shortcode \in ValidatorInputs : FirstFailure(ToLowerCase(Trim(shortcode))) = k
    /\ \E d \in DashReqs :
          /\ dash[d].pc = "done"
          /\ dash[d].status = 400
          /\ dash[d].error = RuleReasons[5]

\* C22: validateCustomShortcode accepts no member of RESERVED_PATHS, and no
\* identifier it accepts is a first path segment the request classifier treats
\* as reserved: a row a dashboard creation stores with a custom shortcode is
\* never hidden from the redirect worker by the reserved paths.
CustomNeverReservedPath ==
    /\ [](/\ \A path \in RESERVED_PATHS : ~validateCustomShortcode(path).isValid
          /\ \A shortcode \in ValidatorInputs :
                validateCustomShortcode(shortcode).isValid =>
                   LET cleaned == ToLowerCase(Trim(shortcode)) IN
                   /\ cleaned \notin RESERVED_PATHS
                   /\ parseShortUrl(SITE_DOMAIN, <<Slash>> \o cleaned, SITE_DOMAIN).ok
                   /\ parseShortUrl(SITE_DOMAIN, <<Slash>> \o cleaned, SITE_DOMAIN).shortcode
                         = cleaned)
    /\ [][\A d \in DashReqs :
            (dash[d].pc = "insert" /\ dash'[d].pc = "done"
             /\ dash[d].useCustomShortcode) =>
               \A row \in urls' \ urls :
                  /\ row.shortcode \notin RESERVED_PATHS
                  /\ parseShortUrl(SITE_DOMAIN, <<Slash>> \o row.shortcode,
                                   SITE_DOMAIN).ok]_vars

\* A custom shortcode was stored by a dashboard creation; of the reserved
\* paths some fail the reserved-word rule and one the pattern.
CustomNeverReservedPathWitness ==
    /\ \E row \in urls : row.shortcode = <<"m","y","-","p","a","g","e">>
    /\ \E d \in DashReqs : dash[d].pc = "done" /\ dash[d].status = 200
    /\ \E path \in RESERVED_PATHS : FirstFailure(path) = 6
    /\ \E path \in RESERVED_PATHS : FirstFailure(path) = 4

\* C25: no shortcode that comes from generateUniqueShortcode is a reserved
\* shortcode or a reserved path: neither the shortcode a dashboard or
\* anonymous creation is about to insert after generation, nor the shortcode
\* of a stored anonymous mapping (anonymous mappings are always generated).
GeneratedNeverReserved ==
    /\ \A d \in DashReqs :
          (dash[d].pc = "insert" /\ ~dash[d].useCustomShortcode) =>
             dash[d].shortcode \notin (RESERVED_SHORTCODES \cup RESERVED_PATHS)
    /\ \A a \in AnonReqs :
          anon[a].pc = "insert" =>
             anon[a].shortcode \notin (RESERVED_SHORTCODES \cup RESERVED_PATHS)
    /\ \A row \in urls :
          row.user_id = NULL =>
             row.shortcode \notin (RESERVED_SHORTCODES \cup RESERVED_PATHS)

\* C23: a request whose client went away before the redirect response was
\* sent leaves no click: no row of url_clicks is written for it.
AbortedLeavesNoClick ==
    \A r \in RedirReqs : redir[r].aborted => redir[r].click # "recorded"

\* C24: whatever the interleaving of the anonymous creations of one source on
\* one day, the source has at most MAX_ANONYMOUS_URLS_PER_DAY mappings (every
\* anonymous mapping of this specification is its own, created that day), and
\* no creation is answered with a negative remaining count.
DailyLimitUnderConcurrency ==
    /\ Cardinality({row \in urls : row.user_id = NULL}) <= MAX_ANONYMOUS_URLS_PER_DAY
    /\ \A a \in AnonReqs : anon[a].remaining >= 0

\* C26: every mapping stored under a subdomain belongs to the user who holds
\* that subdomain now; hence no subdomain has mappings of two owners and none
\* of a user who gave it up.
PartitionOwnedByHolder ==
    \A row \in urls :
        row.subdomain # NULL => UserSubdomain(row.user_id) = row.subdomain

\* C27: concurrent resolveShortestUrl calls of one owner for one branded
\* source create at most one global mapping. All calls of this specification
\* are by one owner and no mapping is deleted, so the calls that return
\* autoCreated are no more than the owner's branded mappings.
ShortestCreatesOnce ==
    Cardinality({s \in ShortReqs : shortest[s].autoCreated})
       <= Cardinality({row \in urls : row.subdomain # NULL /\ row.user_id = u2})

\* The shortcode of the short URL SITE_DOMAIN/shortcode.
ShortUrlShortcode(encodedUrl) ==
    SubSeq(encodedUrl, Len(SITE_DOMAIN) + 2, Len(encodedUrl))

\* C30: when resolveShortestUrl returns without error, no mapping being
\* deleted meanwhile, the URL it returns is SITE_DOMAIN/shortcode for a
\* shortcode under which the global partition holds exactly one mapping: it
\* belongs to the caller and has the destination of the source mapping, so the
\* redirect worker sends that URL where the source goes.
ShortestNamesOwnMapping ==
    [][\A s \in ShortReqs :
          (shortest[s].pc \in {"count", "existing", "insert"}
           /\ shortest'[s].pc = "done" /\ shortest'[s].error = NoError) =>
             LET encodedUrl == shortest'[s].encodedUrl
                 named == {row \in urls' :
                              /\ row.subdomain = NULL
                              /\ row.shortcode = ShortUrlShortcode(encodedUrl)}
             IN  /\ SubSeq(encodedUrl, 1, Len(SITE_DOMAIN) + 1) = SITE_DOMAIN \o <<Slash>>
                 /\ Cardinality(named) = 1
                 /\ \A row \in named :
                       /\ row.user_id = shortest[s].userId
                       /\ row.original_url = shortest[s].urlRecord.original_url
                       /\ row.expires_at = NoExpiry]_vars

\* A resolution created the owner's short URL under a fresh shortcode while
\* another user's global mapping had the source's shortcode and destination.
ShortestNamesOwnMappingWitness ==
    /\ \E s \in ShortReqs :
          /\ shortest[s].pc = "done"
          /\ shortest[s].error = NoError
          /\ shortest[s].autoCreated
          /\ ShortUrlShortcode(shortest[s].encodedUrl) # abcdef
    /\ \E row \in urls :
          /\ row.user_id = u1
          /\ row.subdomain = NULL
          /\ row.shortcode = abcdef
          /\ row.original_url = urlNoPath

Expired(row) == row.expires_at # NoExpiry /\ row.expires_at <= now

\* C28: a mapping whose expires_at has passed is not returned by the resolver
\* and yet keeps its (partition, identifier): the existence check of the
\* allocation paths finds it, the unique index refuses a row with its key, and
\* no step of the system removes an anonymous mapping, expired or not.
ExpiredStillOccupies ==
    /\ [](\A row \in urls :
             Expired(row) =>
                /\ lookupUrl(row.shortcode, row.subdomain) = {}
                /\ checkShortcodeExists(row.shortcode, row.subdomain)
                /\ UniqueConstraintFailed(
                      UrlRow(nextUrlId, u1, row.shortcode, urlNoPath, row.subdomain,
                             NoExpiry)))
    /\ [][\A row \in urls : row.user_id = NULL => row \in urls']_vars
    /\ [][\A d \in DashReqs :
            (dash[d].pc \in {"exists", "generate", "insert"} /\ dash'[d].pc = "done"
             /\ \E row \in urls : /\ Expired(row)
                                  /\ row.subdomain = dash[d].urlSubdomain
                                  /\ row.shortcode = abcdef) =>
               (dash'[d].status # 200 /\ urls' = urls)]_vars

\* A dashboard creation asked for the identifier of an expired anonymous
\* mapping and was refused, a delete-url request having run meanwhile.
ExpiredStillOccupiesWitness ==
    /\ \E row \in urls : Expired(row) /\ row.user_id = NULL /\ row.shortcode = abcdef
    /\ \E d \in DashReqs : dash[d].pc = "done" /\ dash[d].status = 409
    /\ \E d \in DelReqs : del[d].pc = "done"

\* The mapping a delete-url request names exists and belongs to the requester.
OwnsUrl(rec) ==
    \E row \in urls : row.id = rec.numericUrlId /\ row.user_id = rec.userId

\* C29: a delete-url request for an id that names no mapping of the requester
\* is answered 404 at the ownership query and goes no further: it never
\* reaches the steps that delete QR codes, clicks or the mapping. Every row of
\* urls or url_clicks that disappears is removed by a request that passed the
\* ownership query for that very mapping.
DeleteNotFoundDeletesNothing ==
    /\ [][\A d \in DelReqs :
            (del[d].pc = "ownership" /\ del'[d] # del[d]) =>
               /\ urls' = urls
               /\ clicks' = clicks
               /\ IF OwnsUrl(del[d])
                  THEN del'[d].pc = "qr_codes"
                  ELSE del'[d].pc = "done" /\ del'[d].status = 404]_vars
    /\ [][\A d \in DelReqs :
            (del'[d] # del[d] /\ del'[d].pc \in {"qr_codes", "url_clicks", "urls"}) =>
               del[d].pc \in {"ownership", "qr_codes", "url_clicks"}]_vars
    /\ [][/\ \A row \in urls \ urls' :
                \E d \in DelReqs : /\ del[d].pc = "urls"
                                   /\ row.id = del[d].numericUrlId
                                   /\ row.user_id = del[d].userId
          /\ \A c \in clicks \ clicks' :
                \E d \in DelReqs : /\ del[d].pc \in {"url_clicks", "urls"}
                                   /\ c.url_id = del[d].numericUrlId]_vars
    /\ [](\A d \in DelReqs :
             del[d].pc \in {"qr_codes", "url_clicks", "urls"} =>
                \A row \in urls : row.id = del[d].numericUrlId =>
                                     row.user_id = del[d].userId)

\* A delete-url request was answered 404 while a mapping with a recorded click
\* is stored.
DeleteNotFoundDeletesNothingWitness ==
    /\ \E d \in DelReqs : del[d].pc = "done" /\ del[d].status = 404
    /\ \E row \in urls : \E c \in clicks : c.url_id = row.id

====
